---- MODULE Spec2Model ----
(***************************************************************************)
(* A model of the rate limiters (src/limiter.py), of the agent loop        *)
(* (src/base_bot.py), of the fleet supervisor (src/mamager.py) and of the  *)
(* strategy engine (src/generator.py).                                     *)
(*                                                                         *)
(* Time is counted in ticks of the "small buffer" that RateLimiter.acquire *)
(* adds to its wait (0.1 s); windows are whole numbers of ticks.           *)
(***************************************************************************)
EXTENDS Integers, Sequences, FiniteSets, TLC

VARIABLES
    now,            \* time.time(), in ticks
    max_requests,   \* limiter -> RateLimiter.max_requests
    time_window,    \* limiter -> RateLimiter.time_window
    requests,       \* limiter -> RateLimiter.requests (deque of timestamps)
    lock,           \* limiter -> the task holding RateLimiter._lock, or NoTask
    waiters,        \* limiter -> tasks queued on RateLimiter._lock, in order
    pc,             \* task -> where the task's call is suspended
    wake,           \* task -> when its asyncio.sleep ends
    lim,            \* task -> the limiter its acquire() is working on
    atype,          \* task -> action type of its BotActionLimiter.acquire, or NoType
    calls,          \* number of calls started so far
    lastAdmit,      \* limiter -> timestamp of the latest admission (history)
    admitted,       \* limiter -> number of admissions so far (history)
    released,       \* times at which BotActionLimiter.acquire returned (history)
    ret,            \* what the last call was and returned (history)
    \* AdaptiveRateLimiter
    original_max_requests,
    adaptation_factor,          \* in hundredths
    consecutive_successes,
    consecutive_rate_limits,
    recovery_attempts,
    \* BotManager and its bots
    is_running,     \* BotManager.is_running
    phase,          \* how far start_campaign / stop_campaign have got
    is_authenticated,   \* bot -> BaseBot.is_authenticated
    is_active,      \* bot -> BaseBot.is_active
    retry_count,    \* bot -> retry_count of its _run_bot_with_error_handling
    active_bots,    \* BotManager.active_bots (the bots in it)
    bot_tasks,      \* BotManager.bot_tasks (the bots that have a task)
    accounts_banned,    \* team_stats['accounts_banned']
    bpc,            \* bot -> where its task is
    failures,       \* bot -> errors its activity cycles raised so far (history)
    cpc,            \* where the task of _coordination_loop is
    \* one agent (BaseBot / InfluenceBot) seen from inside
    apc,            \* where the agent's start() is
    action,         \* the kind of the action being executed
    searching,      \* inside the loop of _execute_search_and_engage_action
    engaged,        \* engaged_count of that loop
    acquired,       \* the rate limiter admitted the call being made (history)
    cancelled_at,   \* where start() was when its task was cancelled (history)
    stop_called,    \* stop() was called while is_active (history)
    stats,          \* BaseBot.stats
    action_count,   \* BaseBot.action_count
    last_action_time,   \* BaseBot.last_action_time
    api_calls,      \* platform calls made so far
    \* the StrategyEngine of one agent
    coordination_objectives,    \* StrategyEngine.coordination_objectives
    recent_actions,     \* StrategyEngine.recent_actions (deque, maxlen)
    trending_topics,    \* current_context['trending_topics'] is non-empty
    action_cooldowns,   \* the keys of action_cooldowns still in the future
    current_phase,      \* what the agent's get_current_phase() returns
    decision,       \* what the last get_next_action returned (history)
    spc,            \* where the agent's _activity_cycle is
    enqueued,       \* number of directives enqueued so far (history)
    converted,      \* directive -> times it was turned into an action (history)
    \* weighted choice
    choices,        \* the weights of the options, in order
    chosen,         \* what the last weighted choice did (history)
    \* team statistics
    engaged_npcs,   \* bot -> InfluenceBot.engaged_npcs
    unique_npcs_reached,    \* team_stats['unique_npcs_reached']
    unique_npcs_count,  \* the count of the last performance report
    stats_current,  \* nothing changed since the last statistics update (history)
    \* the fleet of BotManager
    account_credentials,    \* per entry: it has a username and a password
    personas,       \* settings.personas has at least one persona
    bots,           \* BotManager.bots: the credential index of each bot
    fleet_calls,    \* calls of create_bot_fleet so far
    fleet_ret,      \* what the last create_bot_fleet was asked and returned (history)
    \* one coordination cycle's distribution
    opportunities,  \* the bot_count of each opportunity of the cycle
    available_bots, \* available_bots of _distribute_coordination_tasks
    selected_bots,  \* opportunity -> the bots it was sent to (history)
    team,           \* list(active_bots.values()) at the start (history)
    \* the environmental scanner of one agent
    intelligence,   \* section -> what the snapshot of the last scan holds
    scan_results,   \* sub-scan -> what it returned in the last scan (history)
    scan_failed,    \* the sub-scans that failed in the last scan (history)
    scan_completed, \* the last scan reached the end of scan_environment
    held_trending_topics,\* EnvironmentalScanner.trending_topics
    political_sentiment,\* EnvironmentalScanner.political_sentiment
    current_context,\* key -> StrategyEngine.current_context[key]
    \* EnvironmentalScanner._analyze_post_sentiment
    scores,         \* keyword matches of the post _analyze_post_sentiment was called with
    sentiment,      \* the dict _analyze_post_sentiment returned
    \* BotManager: what the coordination task wrote
    stats_updates,  \* how often _update_team_statistics rewrote team_stats (history)
    signals_sent,   \* how many directives _send_coordination_signal enqueued (history)
    \* AdaptiveRateLimiter: the reset time of the rate-limit headers
    reset_at,       \* the reset time the last 429 response with remaining = 0 announced (history)
    \* InfluenceBot: the targets of one agent
    followed_accounts,\* InfluenceBot.followed_accounts of the agent
    npc_interactions,\* influence_stats['npc_interactions'] of the agent
    engage_ret      \* the last engagement, follow or notification handled, and how its platform call went

limVars == <<now, max_requests, time_window, requests, lock, waiters, pc, wake,
             lim, atype, calls, lastAdmit, admitted, released, ret>>

arlVars == <<original_max_requests, adaptation_factor, consecutive_successes,
             consecutive_rate_limits, recovery_attempts>>

mgrVars == <<is_running, phase, is_authenticated, is_active, retry_count,
             active_bots, bot_tasks, accounts_banned, bpc, failures, cpc>>

agentVars == <<apc, action, searching, engaged, acquired, cancelled_at,
               stop_called, stats, action_count, last_action_time, api_calls>>

stratVars == <<coordination_objectives, recent_actions, trending_topics,
               action_cooldowns, current_phase, decision, spc, enqueued,
               converted>>

choiceVars == <<choices, chosen>>

\* the parts that stand beside the limiters, the manager, the agent and the
\* strategy engine
statVars == <<engaged_npcs, unique_npcs_reached, unique_npcs_count,
              stats_current>>

fleetVars == <<account_credentials, personas, bots, fleet_calls, fleet_ret>>

distVars == <<opportunities, available_bots, selected_bots, team>>

scanVars == <<intelligence, scan_results, scan_failed, scan_completed, held_trending_topics, political_sentiment, current_context>>

sentVars == <<scores, sentiment>>

campVars == <<stats_updates, signals_sent>>

hdrVars == <<reset_at>>

tgtVars == <<followed_accounts, npc_interactions, engage_ret>>

otherVars == <<choiceVars, statVars, fleetVars,
               distVars,
               scanVars,
               sentVars,
               campVars,
               hdrVars,
               tgtVars>>

vars == <<limVars, arlVars, mgrVars, agentVars, stratVars, otherVars>>

\* what the actions of one part leave alone
nonLimVars == <<arlVars, mgrVars, agentVars, stratVars, otherVars>>
nonMgrVars == <<limVars, arlVars, agentVars, stratVars, otherVars>>
nonStratVars == <<limVars, arlVars, mgrVars, agentVars, otherVars>>

-----------------------------------------------------------------------------
(* Bounds of the model *)

NumTasks == 2
MaxTime == 5
MaxCalls == 4
MaxCapacity == 2
MaxWindow == 2
MaxBalCalls == 4
MaxBalTime == 3
MaxOriginal == 11       \* largest max_requests an AdaptiveRateLimiter is built with
MaxHeaderLimit == 3     \* largest limit a rate-limit header declares
MaxNegLimit == 1        \* the smallest limit a header declares is -MaxNegLimit
MaxFailures == 3        \* longest run of 429 responses
MaxStreak == 11         \* longest run of success responses
NumBots == 3
MaxApiCalls == 3        \* platform calls one agent makes
MaxEngage == 2          \* engagements of one search_and_engage action
MaxAgentTime == 3       \* how far the clock runs beside one agent
MaxRecent == 3           \* maxlen of StrategyEngine.recent_actions
MaxDirectives == 2       \* directives the manager hands to one agent
MaxOptions == 3          \* options of one weighted choice
MaxWeight == 1           \* weights lie in -MaxWeight..MaxWeight
NumNpcs == 4             \* accounts the bots can engage with
MaxPerBot == 2           \* accounts one bot engages with
MaxAccounts == 3         \* entries of the credentials file
MaxFleetCalls == 2       \* calls of create_bot_fleet
MaxOpportunities == 3    \* opportunities of one coordination cycle
MaxBotCount == 3         \* greatest bot_count of an opportunity
MaxData == 1             \* different contents a section of a scan can have
MaxNegCapacity == 1      \* the smallest capacity a limiter is built with is -MaxNegCapacity
MaxCount == 4            \* keywords of one list a post can match
MaxCoordWrites == 2      \* stats_updates and signals_sent are counted up to this
MaxAdaptive == 3         \* largest capacity of the AdaptiveRateLimiter that tasks acquire
MaxHeaderWait == 2       \* the longest wait for a reset (3600 s), in ticks, scaled down
MaxTimedStreak == 2      \* longest run of success responses beside acquire()
MaxInteractions == 3     \* engagements of one agent with posts of other accounts

(* asyncio.sleep(wait_time + 0.1): the buffer is one tick *)
SmallBuffer == 1

Tasks == 1..NumTasks
NoTask == 0
NoTime == -1
NoType == "none"
NoRet == [op |-> "none"]

-----------------------------------------------------------------------------
(* RateLimiter *)

\* while self.requests and (now - self.requests[0]) > self.time_window: popleft()
RECURSIVE Prune(_, _, _)
Prune(q, t, w) ==
    IF q # <<>> /\ (t - Head(q)) > w THEN Prune(Tail(q), t, w) ELSE q

\* the limiter's entries that still count at time t (not yet evictable)
InWindow(q, t, w) == {i \in 1..Len(q) : ~((t - q[i]) > w)}

\* (mutation of SleepResult: the lock is given up for the time of the sleep)
SleepResultReleased(t, q, wt, until) ==
    [pc |-> "sleeping", q |-> q, lk |-> NoTask, wt |-> wt, wake |-> until,
     adm |-> FALSE]

\* acquire() is suspended in asyncio.sleep, still inside `async with self._lock`
SleepResult(t, q, wt, until) ==
    [pc |-> "sleeping", q |-> q, lk |-> t, wt |-> wt, wake |-> until, adm |-> FALSE]

\* self.requests.append(now); leaving `async with` releases the lock
AdmitResult(q, wt, t_now) ==
    [pc |-> "done", q |-> Append(q, t_now), lk |-> NoTask, wt |-> wt, wake |-> 0,
     adm |-> TRUE]

\* self.requests[0] on an empty deque raises IndexError; the lock is released
ErrorResult(q, wt) ==
    [pc |-> "error", q |-> q, lk |-> NoTask, wt |-> wt, wake |-> 0, adm |-> FALSE]

\* The body of acquire() from taking the lock to its first suspension or its end.
AcquireBody(l, t, wt) ==
    LET pruned == Prune(requests[l], now, time_window[l])
    IN  IF Len(pruned) >= max_requests[l]
        THEN IF pruned = <<>>
             THEN ErrorResult(pruned, wt)
             ELSE LET wait_time == time_window[l] - (now - Head(pruned))
                  IN  IF wait_time > 0
                      THEN SleepResult(t, pruned, wt, now + wait_time + SmallBuffer)
                      ELSE AdmitResult(pruned, wt, now)
        ELSE AdmitResult(pruned, wt, now)

\* `async with self._lock`: asyncio.Lock is taken at once when it is free and
\* nobody is queued, otherwise the caller queues behind the others.
Begin(l, t) ==
    IF lock[l] # NoTask \/ waiters[l] # <<>>
    THEN [pc |-> "waitlock", q |-> requests[l], lk |-> lock[l],
          wt |-> Append(waiters[l], t), wake |-> 0, adm |-> FALSE]
    ELSE AcquireBody(l, t, waiters[l])

\* After the sleep: re-clean with the new time, then append.
AfterSleep(l, t) ==
    AdmitResult(Prune(requests[l], now, time_window[l]), waiters[l], now)

\* (mutation of CanMakeRequestResult: the eviction is left out)
CanMakeRequestNoEvict(l) ==
    Len(requests[l]) < max_requests[l]

\* can_make_request(): evicts, then compares
CanMakeRequestResult(l) ==
    Len(Prune(requests[l], now, time_window[l])) < max_requests[l]

-----------------------------------------------------------------------------
(* BotActionLimiter *)

ActionTypes == {"post", "follow", "reply"}

\* self.limiters.get(action_type): "reply" has no limiter of its own
HasLimiter(a) == a \in {"post", "follow"}

OverallLimiter == "overall"

\* The limiter acquire(a) goes to after limiter l admitted it, or "" if none:
\* BotActionLimiter.acquire awaits the overall limiter first, then the type's.
NextLimiter(l, a) ==
    IF a # NoType /\ l = OverallLimiter /\ HasLimiter(a) THEN a ELSE ""

-----------------------------------------------------------------------------
(* Steps of a task inside acquire() *)

\* Task t, in a call for action type a, got result r on limiter l; when l
\* admitted it and another limiter follows, the task goes on into that limiter
\* without suspending.
Progress(t, l, r, a) ==
    LET l2 == NextLimiter(l, a)
        chain == r.pc = "done" /\ l2 # ""
        r2 == IF chain THEN Begin(l2, t) ELSE r
        last == IF chain THEN l2 ELSE l
        upd(f, x, y) == IF chain THEN [f EXCEPT ![l] = x, ![l2] = y]
                                 ELSE [f EXCEPT ![l] = x]
    IN  /\ requests' = upd(requests, r.q, r2.q)
        /\ lock' = upd(lock, r.lk, r2.lk)
        /\ waiters' = upd(waiters, r.wt, r2.wt)
        /\ lastAdmit' = upd(lastAdmit,
                            IF r.adm THEN now ELSE lastAdmit[l],
                            IF r2.adm THEN now ELSE lastAdmit[last])
        /\ admitted' = upd(admitted,
                           IF r.adm THEN admitted[l] + 1 ELSE admitted[l],
                           IF r2.adm THEN admitted[last] + 1 ELSE admitted[last])
        /\ pc' = [pc EXCEPT ![t] = IF r2.pc \in {"done", "error"} THEN "idle" ELSE r2.pc]
        /\ wake' = [wake EXCEPT ![t] = r2.wake]
        /\ lim' = [lim EXCEPT ![t] = IF r2.pc \in {"done", "error"} THEN "" ELSE last]
        /\ atype' = [atype EXCEPT ![t] = IF r2.pc \in {"done", "error"} THEN NoType ELSE a]
        /\ released' = IF r2.pc = "done" /\ a # NoType
                       THEN Append(released, now) ELSE released
        /\ ret' = IF r2.pc = "error" THEN [op |-> "acquire", raised |-> "IndexError"]
                                    ELSE NoRet

\* RateLimiter.acquire() called by an idle task
Acquire(t, l) ==
    /\ pc[t] = "idle"
    /\ calls < MaxCalls
    /\ calls' = calls + 1
    /\ Progress(t, l, Begin(l, t), NoType)
    /\ UNCHANGED <<now, max_requests, time_window>>
    /\ UNCHANGED nonLimVars

\* The lock was released and t is the first in its queue: it takes the lock
LockGranted(t) ==
    /\ pc[t] = "waitlock"
    /\ lock[lim[t]] = NoTask
    /\ waiters[lim[t]] # <<>>
    /\ Head(waiters[lim[t]]) = t
    /\ Progress(t, lim[t], AcquireBody(lim[t], t, Tail(waiters[lim[t]])), atype[t])
    /\ UNCHANGED <<now, max_requests, time_window, calls>>
    /\ UNCHANGED nonLimVars

\* asyncio.sleep returns once its time has passed
WakeUp(t) ==
    /\ pc[t] = "sleeping"
    /\ now >= wake[t]
    /\ Progress(t, lim[t], AfterSleep(lim[t], t), atype[t])
    /\ UNCHANGED <<now, max_requests, time_window, calls>>
    /\ UNCHANGED nonLimVars

\* can_make_request(): synchronous, takes no lock, evicts as a side effect
CanMakeRequest(l) ==
    /\ requests' = [requests EXCEPT ![l] = Prune(requests[l], now, time_window[l])]
    /\ ret' = [op |-> "can_make_request", lim |-> l, val |-> CanMakeRequestResult(l)]
    /\ UNCHANGED <<now, max_requests, time_window, lock, waiters, pc, wake, lim,
                   atype, calls, lastAdmit, admitted, released>>
    /\ UNCHANGED nonLimVars

\* Time passes
Tick ==
    /\ now < MaxTime
    /\ now' = now + 1
    /\ ret' = NoRet
    /\ UNCHANGED <<max_requests, time_window, requests, lock, waiters, pc, wake,
                   lim, atype, calls, lastAdmit, admitted, released>>
    /\ UNCHANGED nonLimVars

-----------------------------------------------------------------------------
(* The parts of the state a specification does not use *)

NoAdaptive ==
    /\ original_max_requests = 0
    /\ adaptation_factor = 0
    /\ consecutive_successes = 0
    /\ consecutive_rate_limits = 0
    /\ recovery_attempts = 0

NoManager ==
    /\ is_running = FALSE
    /\ phase = "none"
    /\ is_authenticated = <<>>
    /\ is_active = <<>>
    /\ retry_count = <<>>
    /\ active_bots = {}
    /\ bot_tasks = {}
    /\ accounts_banned = 0
    /\ bpc = <<>>
    /\ failures = <<>>
    /\ cpc = "none"

NoAgent ==
    /\ apc = "none"
    /\ action = "none"
    /\ searching = FALSE
    /\ engaged = 0
    /\ acquired = FALSE
    /\ cancelled_at = "none"
    /\ stop_called = FALSE
    /\ stats = <<>>
    /\ action_count = 0
    /\ last_action_time = 0
    /\ api_calls = 0

\* no action returned yet
NoDecision ==
    [source |-> "none", id |-> 0, type |-> "none", content_type |-> "none"]

NoStrategy ==
    /\ coordination_objectives = <<>>
    /\ recent_actions = <<>>
    /\ trending_topics = FALSE
    /\ action_cooldowns = {}
    /\ current_phase = "none"
    /\ decision = NoDecision
    /\ spc = "none"
    /\ enqueued = 0
    /\ converted = <<>>

NoChoice ==
    /\ choices = <<>>
    /\ chosen = [op |-> "none"]

NoStats ==
    /\ engaged_npcs = <<>>
    /\ unique_npcs_reached = {}
    /\ unique_npcs_count = 0
    /\ stats_current = FALSE

NoFleet ==
    /\ account_credentials = <<>>
    /\ personas = FALSE
    /\ bots = <<>>
    /\ fleet_calls = 0
    /\ fleet_ret = [op |-> "none"]

NoDist ==
    /\ opportunities = <<>>
    /\ available_bots = <<>>
    /\ selected_bots = <<>>
    /\ team = <<>>

NoScan ==
    /\ intelligence = <<>>
    /\ scan_results = <<>>
    /\ scan_failed = {}
    /\ scan_completed = FALSE
    /\ held_trending_topics = <<>>
    /\ political_sentiment = <<>>
    /\ current_context = <<>>

NoSentiment ==
    /\ scores = [victor |-> 0, marina |-> 0, positive |-> 0, negative |-> 0]
    /\ sentiment = [op |-> "none"]

NoCampaign ==
    /\ stats_updates = 0
    /\ signals_sent = 0

NoReset ==
    /\ reset_at = NoTime

NoTargets ==
    /\ followed_accounts = {}
    /\ npc_interactions = 0
    /\ engage_ret = [op |-> "none"]

NoOther ==
    /\ NoChoice
    /\ NoStats
    /\ NoFleet
    /\ NoDist
    /\ NoScan
    /\ NoSentiment
    /\ NoCampaign
    /\ NoReset
    /\ NoTargets

NoLimiter ==
    /\ now = 0
    /\ max_requests = <<>>
    /\ time_window = <<>>
    /\ requests = <<>>
    /\ lock = <<>>
    /\ waiters = <<>>
    /\ pc = <<>>
    /\ wake = <<>>
    /\ lim = <<>>
    /\ atype = <<>>
    /\ calls = 0
    /\ lastAdmit = <<>>
    /\ admitted = <<>>
    /\ released = <<>>
    /\ ret = NoRet

\* everything but the parts in otherVars, as it is before anything is built
NoCore ==
    /\ NoLimiter
    /\ NoAdaptive
    /\ NoManager
    /\ NoAgent
    /\ NoStrategy

-----------------------------------------------------------------------------
(* One RateLimiter(max_requests = k, time_window = w) used by several tasks *)

RL == "rl"

InitRL ==
    /\ now = 0
    /\ \E k \in 1..MaxCapacity : max_requests = [l \in {RL} |-> k]
    /\ \E w \in 1..MaxWindow : time_window = [l \in {RL} |-> w]
    /\ requests = [l \in {RL} |-> <<>>]
    /\ lock = [l \in {RL} |-> NoTask]
    /\ waiters = [l \in {RL} |-> <<>>]
    /\ pc = [t \in Tasks |-> "idle"]
    /\ wake = [t \in Tasks |-> 0]
    /\ lim = [t \in Tasks |-> ""]
    /\ atype = [t \in Tasks |-> NoType]
    /\ calls = 0
    /\ lastAdmit = [l \in {RL} |-> NoTime]
    /\ admitted = [l \in {RL} |-> 0]
    /\ released = <<>>
    /\ ret = NoRet
    /\ NoAdaptive
    /\ NoManager
    /\ NoAgent
    /\ NoStrategy
    /\ NoOther

NextRL ==
    \/ \E t \in Tasks : Acquire(t, RL)
    \/ \E t \in Tasks : LockGranted(t)
    \/ \E t \in Tasks : WakeUp(t)
    \/ CanMakeRequest(RL)
    \/ Tick

SpecRL == InitRL /\ [][NextRL]_vars

-----------------------------------------------------------------------------
(* One RateLimiter built with a capacity that is not positive.  No call ever
   suspends holding the lock, so no task waits for the lock or sleeps. *)

InitZero ==
    /\ now = 0
    /\ \E k \in (0 - MaxNegCapacity)..0 : max_requests = [l \in {RL} |-> k]
    /\ \E w \in 1..MaxWindow : time_window = [l \in {RL} |-> w]
    /\ requests = [l \in {RL} |-> <<>>]
    /\ lock = [l \in {RL} |-> NoTask]
    /\ waiters = [l \in {RL} |-> <<>>]
    /\ pc = [t \in Tasks |-> "idle"]
    /\ wake = [t \in Tasks |-> 0]
    /\ lim = [t \in Tasks |-> ""]
    /\ atype = [t \in Tasks |-> NoType]
    /\ calls = 0
    /\ lastAdmit = [l \in {RL} |-> NoTime]
    /\ admitted = [l \in {RL} |-> 0]
    /\ released = <<>>
    /\ ret = NoRet
    /\ NoAdaptive
    /\ NoManager
    /\ NoAgent
    /\ NoStrategy
    /\ NoOther

NextZero ==
    \/ \E t \in Tasks : Acquire(t, RL)
    \/ CanMakeRequest(RL)
    \/ Tick

SpecZero == InitZero /\ [][NextZero]_vars

-----------------------------------------------------------------------------
(* A BotActionLimiter used by several tasks.  The capacities (8 overall, 2 per
   post, 2 per follow) and the windows (60 s, and 120 s for "follow") are
   scaled down; the overall capacity stays above each type's, and the
   "follow" window stays twice the others. *)

OverallCapacity == 2
PostCapacity == 1
FollowCapacity == 1
BaseWindow == 1

BalLimiters == {OverallLimiter, "post", "follow"}

BalCapacity(l) ==
    CASE l = OverallLimiter -> OverallCapacity
      [] l = "post" -> PostCapacity
      [] l = "follow" -> FollowCapacity

BalWindow(l) == IF l = "follow" THEN 2 * BaseWindow ELSE BaseWindow

\* BotActionLimiter.acquire(action_type) called by an idle task
BalAcquire(t, a) ==
    /\ pc[t] = "idle"
    /\ calls < MaxBalCalls
    /\ calls' = calls + 1
    /\ Progress(t, OverallLimiter, Begin(OverallLimiter, t), a)
    /\ UNCHANGED <<now, max_requests, time_window>>
    /\ UNCHANGED nonLimVars

\* (mutation of CanPerformActionResult: the overall limiter is not consulted)
CanPerformActionTypeOnly(a) ==
    IF HasLimiter(a) THEN CanMakeRequestResult(a) ELSE TRUE

\* can_perform_action(action_type)
CanPerformActionResult(a) ==
    IF ~CanMakeRequestResult(OverallLimiter)
    THEN FALSE
    ELSE IF HasLimiter(a) THEN CanMakeRequestResult(a) ELSE TRUE

\* can_perform_action: each can_make_request() it reaches evicts in its limiter
CanPerformAction(a) ==
    LET ov == Prune(requests[OverallLimiter], now, time_window[OverallLimiter])
    IN  /\ requests' =
              IF CanMakeRequestResult(OverallLimiter) /\ HasLimiter(a)
              THEN [requests EXCEPT ![OverallLimiter] = ov,
                                    ![a] = Prune(requests[a], now, time_window[a])]
              ELSE [requests EXCEPT ![OverallLimiter] = ov]
        /\ ret' = [op |-> "can_perform_action", type |-> a,
                   val |-> CanPerformActionResult(a)]
        /\ UNCHANGED <<now, max_requests, time_window, lock, waiters, pc, wake,
                       lim, atype, calls, lastAdmit, admitted, released>>
        /\ UNCHANGED nonLimVars

BalTick ==
    /\ now < MaxBalTime
    /\ now' = now + 1
    /\ ret' = NoRet
    /\ UNCHANGED <<max_requests, time_window, requests, lock, waiters, pc, wake,
                   lim, atype, calls, lastAdmit, admitted, released>>
    /\ UNCHANGED nonLimVars

InitBAL ==
    /\ now = 0
    /\ max_requests = [l \in BalLimiters |-> BalCapacity(l)]
    /\ time_window = [l \in BalLimiters |-> BalWindow(l)]
    /\ requests = [l \in BalLimiters |-> <<>>]
    /\ lock = [l \in BalLimiters |-> NoTask]
    /\ waiters = [l \in BalLimiters |-> <<>>]
    /\ pc = [t \in Tasks |-> "idle"]
    /\ wake = [t \in Tasks |-> 0]
    /\ lim = [t \in Tasks |-> ""]
    /\ atype = [t \in Tasks |-> NoType]
    /\ calls = 0
    /\ lastAdmit = [l \in BalLimiters |-> NoTime]
    /\ admitted = [l \in BalLimiters |-> 0]
    /\ released = <<>>
    /\ ret = NoRet
    /\ NoAdaptive
    /\ NoManager
    /\ NoAgent
    /\ NoStrategy
    /\ NoOther

NextBAL ==
    \/ \E t \in Tasks, a \in ActionTypes : BalAcquire(t, a)
    \/ \E t \in Tasks : LockGranted(t)
    \/ \E t \in Tasks : WakeUp(t)
    \/ \E a \in ActionTypes : CanPerformAction(a)
    \/ BalTick

SpecBAL == InitBAL /\ [][NextBAL]_vars

-----------------------------------------------------------------------------
(* AdaptiveRateLimiter.  adaptation_factor is kept in hundredths. *)

ARL == "arl"

recovery_threshold == 10
max_recovery_attempts == 3

Min(x, y) == IF x < y THEN x ELSE y
Max(x, y) == IF x > y THEN x ELSE y

\* int(n / d): Python's int() truncates toward zero
Trunc(n, d) == IF n >= 0 THEN n \div d ELSE -((-n) \div d)

\* self.adaptation_factor = max(0.1, min(1.0, adaptation_factor))
ClampFactor(f) == Max(10, Min(100, f))

\* the adaptation factors callers pass, in hundredths
FactorInputs == {5, 50, 80, 90, 100, 150}

\* The rate-limit headers of a response, as _parse_rate_limit_headers reads
\* them: whether a limit header is there and parses, its value, and whether
\* remaining == 0 with a reset time that lies 0 < .. <= 3600 s ahead.
\* Headers of None or {} are [has_limit |-> FALSE, wait |-> FALSE].
Headers ==
    {[has_limit |-> FALSE, limit |-> 0, wait |-> w] : w \in BOOLEAN}
    \cup {[has_limit |-> TRUE, limit |-> n, wait |-> w] :
              n \in (0 - MaxNegLimit)..MaxHeaderLimit, w \in BOOLEAN}

StatusCodes == {"429", "2xx", "other"}

\* (mutation of ShrinkDue: the limit shrinks from the third 429 in a row)
ShrinkDueAtThree(n) == n >= 3

\* if self.consecutive_rate_limits >= 2
ShrinkDue(n) == n >= 2

\* new_max = max(1, int(max_requests * adaptation_factor)); taken if smaller
Shrunk(m, f) ==
    LET new_max == Max(1, Trunc(m * f, 100))
    IN  IF new_max < m THEN new_max ELSE m

\* if limit and limit < self.max_requests: self.max_requests = limit
HeaderAdjusted(m, h) ==
    IF h.has_limit /\ h.limit # 0 /\ h.limit < m THEN h.limit ELSE m

\* (mutation of Recovered: the increase is not capped)
RecoveredUncapped(m, orig) == Trunc(m * 12, 10)

\* min(self.original_max_requests, int(self.max_requests * 1.2))
Recovered(m, orig) == Min(orig, Trunc(m * 12, 10))

\* the condition under which a success response tries to recover the limit
RecoveryDue(successes) ==
    /\ successes >= recovery_threshold
    /\ max_requests[ARL] < original_max_requests
    /\ recovery_attempts < max_recovery_attempts

\* handle_rate_limit_response(status_code, headers), from taking the lock to
\* its end or to the sleep _parse_rate_limit_headers makes under the lock.  A
\* caller that finds the lock held waits for it and runs this body afterwards.
HandleRateLimitResponse(t, s, h) ==
    /\ pc[t] = "idle"
    /\ lock[ARL] = NoTask
    /\ CASE s = "429" ->
              LET n == consecutive_rate_limits + 1
                  m == max_requests[ARL]
                  m1 == IF ShrinkDue(n) THEN Shrunk(m, adaptation_factor) ELSE m
                  sleeps == h.wait
              IN  /\ consecutive_rate_limits < MaxFailures
                  /\ consecutive_rate_limits' = n
                  /\ consecutive_successes' = 0
                  /\ max_requests' = [max_requests EXCEPT ![ARL] = HeaderAdjusted(m1, h)]
                  /\ pc' = [pc EXCEPT ![t] = IF sleeps THEN "header_sleep" ELSE "idle"]
                  /\ lock' = [lock EXCEPT ![ARL] = IF sleeps THEN t ELSE NoTask]
                  /\ lim' = [lim EXCEPT ![t] = IF sleeps THEN ARL ELSE ""]
                  /\ UNCHANGED recovery_attempts
          [] s = "2xx" ->
              LET n == consecutive_successes + 1
              IN  /\ consecutive_successes < MaxStreak
                  /\ consecutive_rate_limits' = 0
                  /\ IF RecoveryDue(n)
                     THEN /\ max_requests' = [max_requests EXCEPT ![ARL] =
                                 Recovered(max_requests[ARL], original_max_requests)]
                          /\ consecutive_successes' = 0
                          /\ recovery_attempts' = recovery_attempts + 1
                     ELSE /\ consecutive_successes' = n
                          /\ UNCHANGED <<max_requests, recovery_attempts>>
                  /\ UNCHANGED <<pc, lock, lim>>
          [] OTHER ->
              UNCHANGED <<max_requests, consecutive_successes,
                          consecutive_rate_limits, recovery_attempts, pc, lock, lim>>
    /\ ret' = [op |-> "handle_rate_limit_response", status |-> s,
               limit_header |-> (s = "429" /\ h.has_limit)]
    /\ UNCHANGED <<now, time_window, requests, waiters, wake, atype, calls,
                   lastAdmit, admitted, released>>
    /\ UNCHANGED <<original_max_requests, adaptation_factor>>
    /\ UNCHANGED <<mgrVars, agentVars, stratVars, otherVars>>

\* asyncio.sleep(wait_time + 1) in _parse_rate_limit_headers is over: the
\* handler returns and gives up the lock
HeaderSleepDone(t) ==
    /\ pc[t] = "header_sleep"
    /\ pc' = [pc EXCEPT ![t] = "idle"]
    /\ lock' = [lock EXCEPT ![lim[t]] = NoTask]
    /\ lim' = [lim EXCEPT ![t] = ""]
    /\ ret' = NoRet
    /\ UNCHANGED <<now, max_requests, time_window, requests, waiters, wake,
                   atype, calls, lastAdmit, admitted, released>>
    /\ UNCHANGED nonLimVars

InitARL ==
    /\ now = 0
    /\ \E k \in 1..MaxOriginal :
          /\ max_requests = [l \in {ARL} |-> k]
          /\ original_max_requests = k
    /\ \E f \in FactorInputs : adaptation_factor = ClampFactor(f)
    /\ consecutive_successes = 0
    /\ consecutive_rate_limits = 0
    /\ recovery_attempts = 0
    /\ time_window = [l \in {ARL} |-> 1]
    /\ requests = [l \in {ARL} |-> <<>>]
    /\ lock = [l \in {ARL} |-> NoTask]
    /\ waiters = [l \in {ARL} |-> <<>>]
    /\ pc = [t \in Tasks |-> "idle"]
    /\ wake = [t \in Tasks |-> 0]
    /\ lim = [t \in Tasks |-> ""]
    /\ atype = [t \in Tasks |-> NoType]
    /\ calls = 0
    /\ lastAdmit = [l \in {ARL} |-> NoTime]
    /\ admitted = [l \in {ARL} |-> 0]
    /\ released = <<>>
    /\ ret = NoRet
    /\ NoManager
    /\ NoAgent
    /\ NoStrategy
    /\ NoOther

NextARL ==
    \/ \E t \in Tasks, s \in StatusCodes, h \in Headers :
          HandleRateLimitResponse(t, s, h)
    \/ \E t \in Tasks : HeaderSleepDone(t)

SpecARL == InitARL /\ [][NextARL]_vars

-----------------------------------------------------------------------------
(* BotManager: start_campaign, one _run_bot_with_error_handling task per
   authenticated bot, BaseBot.start inside it, and stop_campaign. *)

Bots == 1..NumBots

max_retries == 3

\* the positions of a bot's task at which it is suspended and can be cancelled
Suspended == {"login", "supervise", "backoff", "cycle", "wait"}

\* start_campaign up to `await self._authenticate_all_bots()`
StartCampaign ==
    /\ phase = "created"
    /\ is_running' = TRUE
    /\ phase' = "authenticating"
    /\ bpc' = [b \in Bots |-> "login"]
    /\ UNCHANGED <<is_authenticated, is_active, retry_count, active_bots,
                   bot_tasks, accounts_banned, failures>>
    /\ UNCHANGED <<cpc, nonMgrVars>>

\* bot.authenticate() under _authenticate_all_bots: the login succeeds or not
Authenticate(b) ==
    /\ phase = "authenticating"
    /\ bpc[b] = "login"
    /\ \E success \in BOOLEAN :
          is_authenticated' = [is_authenticated EXCEPT ![b] = @ \/ success]
    /\ bpc' = [bpc EXCEPT ![b] = "none"]
    /\ UNCHANGED <<is_running, phase, is_active, retry_count, active_bots,
                   bot_tasks, accounts_banned, failures>>
    /\ UNCHANGED <<cpc, nonMgrVars>>

\* start_campaign after the authentications: a task for every authenticated
\* bot, and the task of _coordination_loop, which enters its first cycle
LaunchTasks ==
    /\ phase = "authenticating"
    /\ \A b \in Bots : bpc[b] = "none"
    /\ phase' = "running"
    /\ bot_tasks' = {b \in Bots : is_authenticated[b]}
    /\ active_bots' = {b \in Bots : is_authenticated[b]}
    /\ bpc' = [b \in Bots |-> IF is_authenticated[b] THEN "supervise" ELSE "none"]
    /\ UNCHANGED <<is_running, is_authenticated, is_active, retry_count,
                   accounts_banned, failures>>
    /\ cpc' = "cycle"
    /\ UNCHANGED nonMgrVars

\* (mutation of TaskEnds: a bot whose task ends is dropped without being counted)
TaskEndsDropped(b, n) ==
    /\ bpc' = [bpc EXCEPT ![b] = "ended"]
    /\ active_bots' = active_bots \ {b}
    /\ accounts_banned' = accounts_banned

\* The end of _run_bot_with_error_handling for bot b with retry count n:
\* "if retry_count >= max_retries" removes the bot and counts it as banned.
TaskEnds(b, n) ==
    /\ bpc' = [bpc EXCEPT ![b] = "ended"]
    /\ active_bots' = IF n >= max_retries THEN active_bots \ {b} ELSE active_bots
    /\ accounts_banned' = IF n >= max_retries THEN accounts_banned + 1
                                              ELSE accounts_banned

\* _run_bot_with_error_handling at the head of its loop, or coming back from
\* the backoff sleep (where it first re-authenticates): it tests the loop
\* condition and calls bot.start(), which authenticates if it has to, raises
\* if that fails, and otherwise sets is_active and enters its activity loop.
RunBot(b) ==
    /\ bpc[b] \in {"supervise", "backoff"}
    /\ \E relogin, login \in BOOLEAN :
          LET auth1 == is_authenticated[b] \/ (bpc[b] = "backoff" /\ relogin)
              auth2 == auth1 \/ login
              n == retry_count[b] + 1
          IN  IF ~(is_running /\ retry_count[b] < max_retries)
              THEN /\ TaskEnds(b, retry_count[b])
                   /\ is_authenticated' = [is_authenticated EXCEPT ![b] = auth1]
                   /\ UNCHANGED <<is_active, retry_count>>
              ELSE IF auth2
              THEN /\ is_authenticated' = [is_authenticated EXCEPT ![b] = TRUE]
                   /\ is_active' = [is_active EXCEPT ![b] = TRUE]
                   /\ bpc' = [bpc EXCEPT ![b] = "cycle"]
                   /\ UNCHANGED <<retry_count, active_bots, accounts_banned>>
              ELSE /\ retry_count' = [retry_count EXCEPT ![b] = n]
                   /\ IF n < max_retries
                      THEN /\ bpc' = [bpc EXCEPT ![b] = "backoff"]
                           /\ UNCHANGED <<active_bots, accounts_banned>>
                      ELSE TaskEnds(b, n)
                   /\ UNCHANGED <<is_authenticated, is_active>>
    /\ UNCHANGED <<is_running, phase, bot_tasks, failures>>
    /\ UNCHANGED <<cpc, nonMgrVars>>

\* `while self.is_active: await self._activity_cycle()` and the cycle succeeds;
\* with is_active false the loop and start() end, the supervisor breaks
CycleOk(b) ==
    /\ bpc[b] = "cycle"
    /\ IF is_active[b]
       THEN /\ bpc' = [bpc EXCEPT ![b] = "wait"]
            /\ UNCHANGED <<active_bots, accounts_banned>>
       ELSE TaskEnds(b, retry_count[b])
    /\ UNCHANGED <<is_running, phase, is_authenticated, is_active, retry_count,
                   bot_tasks, failures>>
    /\ UNCHANGED <<cpc, nonMgrVars>>

\* _activity_cycle raises: start() catches the exception, clears is_active and
\* returns; the supervisor sees a normal return, breaks, and its task ends
CycleError(b) ==
    /\ bpc[b] = "cycle"
    /\ is_active[b]
    /\ failures' = [failures EXCEPT ![b] = @ + 1]
    /\ is_active' = [is_active EXCEPT ![b] = FALSE]
    /\ TaskEnds(b, retry_count[b])
    /\ UNCHANGED <<is_running, phase, is_authenticated, retry_count, bot_tasks>>
    /\ UNCHANGED <<cpc, nonMgrVars>>

\* _wait_for_next_action is over: back to the test of `while self.is_active`
WaitDone(b) ==
    /\ bpc[b] = "wait"
    /\ bpc' = [bpc EXCEPT ![b] = "cycle"]
    /\ UNCHANGED <<is_running, phase, is_authenticated, is_active, retry_count,
                   active_bots, bot_tasks, accounts_banned, failures>>
    /\ UNCHANGED <<cpc, nonMgrVars>>

\* stop_campaign: clears is_running, cancels every task that is not done,
\* stops the bots of active_bots, and waits for the tasks
StopCampaign ==
    /\ phase \in {"authenticating", "running"}
    /\ is_running' = FALSE
    /\ phase' = "stopped"
    /\ bpc' = [b \in Bots |-> IF bpc[b] \in Suspended THEN "cancelled" ELSE bpc[b]]
    /\ is_active' = [b \in Bots |-> IF b \in active_bots THEN FALSE ELSE is_active[b]]
    /\ UNCHANGED <<is_authenticated, retry_count, active_bots, bot_tasks,
                   accounts_banned, failures>>
    /\ UNCHANGED <<cpc, nonMgrVars>>

\* (mutation of CoordErrorNext: the exception ends the coordination loop)
CoordErrorEnds == "ended"

\* `except Exception` in _coordination_loop: log, then asyncio.sleep(60)
CoordErrorNext == "retry_sleep"

\* _coordinate_team_strategy returns: asyncio.sleep(self.coordination_interval)
CoordinateOk ==
    /\ cpc = "cycle"
    /\ cpc' = "sleep"
    /\ UNCHANGED <<is_running, phase, is_authenticated, is_active, retry_count,
                   active_bots, bot_tasks, accounts_banned, bpc, failures>>
    /\ UNCHANGED nonMgrVars

\* _coordinate_team_strategy raises: the loop catches it and sleeps
CoordinateError ==
    /\ cpc = "cycle"
    /\ cpc' = CoordErrorNext
    /\ UNCHANGED <<is_running, phase, is_authenticated, is_active, retry_count,
                   active_bots, bot_tasks, accounts_banned, bpc, failures>>
    /\ UNCHANGED nonMgrVars

\* either sleep of _coordination_loop is over: `while self.is_running`
CoordSleepDone ==
    /\ cpc \in {"sleep", "retry_sleep"}
    /\ cpc' = IF is_running THEN "cycle" ELSE "ended"
    /\ UNCHANGED <<is_running, phase, is_authenticated, is_active, retry_count,
                   active_bots, bot_tasks, accounts_banned, bpc, failures>>
    /\ UNCHANGED nonMgrVars

InitMgr ==
    /\ is_running = FALSE
    /\ phase = "created"
    /\ is_authenticated = [b \in Bots |-> FALSE]
    /\ is_active = [b \in Bots |-> FALSE]
    /\ retry_count = [b \in Bots |-> 0]
    /\ active_bots = {}
    /\ bot_tasks = {}
    /\ accounts_banned = 0
    /\ bpc = [b \in Bots |-> "none"]
    /\ failures = [b \in Bots |-> 0]
    /\ cpc = "none"
    /\ NoLimiter
    /\ NoAdaptive
    /\ NoAgent
    /\ NoStrategy
    /\ NoOther

NextMgr ==
    \/ StartCampaign
    \/ \E b \in Bots : Authenticate(b)
    \/ LaunchTasks
    \/ \E b \in Bots : RunBot(b)
    \/ \E b \in Bots : CycleOk(b)
    \/ \E b \in Bots : CycleError(b)
    \/ \E b \in Bots : WaitDone(b)
    \/ StopCampaign
    \/ CoordinateOk
    \/ CoordinateError
    \/ CoordSleepDone

SpecMgr == InitMgr /\ [][NextMgr]_vars

-----------------------------------------------------------------------------
(* One agent: BaseBot.start / stop, InfluenceBot._activity_cycle and the
   actions it executes, and the cancellation of its task by stop_campaign.
   The agent's own RateLimiter is seen from outside here: acquire() admits
   the caller at once or after a wait. *)

AG == 1

\* the actions that go through `async with self.rate_limiter`
Limited == {"post", "reply", "like", "repost"}

\* the actions that call the platform directly
Unlimited == {"follow", "search"}

\* the counter of BaseBot.stats an action of kind k adds to on success
StatOf(k) ==
    CASE k = "post" -> "posts_created"
      [] k = "reply" -> "replies_made"
      [] k = "like" -> "likes_given"
      [] k = "repost" -> "reposts_made"

StatNames == {"posts_created", "replies_made", "likes_given", "reposts_made"}

\* what a platform call comes back with
Outcomes == {"ok", "fail", "rate_limited", "raise"}

\* the positions of start() inside _activity_cycle
InCycle == {"scan", "acquire", "call", "engage", "after"}

\* the positions at which start() is suspended and its task can be cancelled
AgentSuspended == InCycle \cup {"authenticating", "delay"}

\* the variables no step of the agent touches
agentFrame == <<max_requests, time_window, requests, lock, waiters, pc, wake,
                lim, atype, calls, lastAdmit, admitted, released, arlVars,
                is_running, phase, retry_count, active_bots, bot_tasks,
                accounts_banned, bpc, cpc, stratVars, otherVars>>

\* (mutation of AuthResult: start() goes on whatever authenticate() returned)
AuthResultIgnored(success) ==
    [auth |-> success, active |-> TRUE, pc |-> "scan"]

\* start(): `if not await self.authenticate(): raise Exception(...)`, else
\* is_active = True and the loop begins
AuthResult(success) ==
    IF success THEN [auth |-> TRUE, active |-> TRUE, pc |-> "scan"]
               ELSE [auth |-> FALSE, active |-> FALSE, pc |-> "raised"]

\* start() is called: an authenticated agent becomes active and enters its
\* first cycle, another one awaits authenticate() first
Start ==
    /\ apc = "created"
    /\ IF is_authenticated[AG]
       THEN /\ is_active' = [is_active EXCEPT ![AG] = TRUE]
            /\ apc' = "scan"
       ELSE /\ apc' = "authenticating"
            /\ UNCHANGED is_active
    /\ ret' = NoRet
    /\ UNCHANGED <<now, is_authenticated, failures, action, searching, engaged,
                   acquired, cancelled_at, stop_called, stats, action_count,
                   last_action_time, api_calls>>
    /\ UNCHANGED agentFrame

\* authenticate() inside start() returns
StartAuthDone ==
    /\ apc = "authenticating"
    /\ \E success \in BOOLEAN :
          LET r == AuthResult(success)
          IN  /\ is_authenticated' = [is_authenticated EXCEPT ![AG] = r.auth]
              /\ is_active' = [is_active EXCEPT ![AG] = r.active]
              /\ apc' = r.pc
    /\ ret' = NoRet
    /\ UNCHANGED <<now, failures, action, searching, engaged, acquired,
                   cancelled_at, stop_called, stats, action_count,
                   last_action_time, api_calls>>
    /\ UNCHANGED agentFrame

\* The agent goes into an action of kind k: a limited kind awaits the rate
\* limiter, which admits it at once or makes it wait; the others go straight
\* to the platform call.
EnterAction(k, waits) ==
    /\ action' = k
    /\ apc' = IF k \in Limited /\ waits THEN "acquire" ELSE "call"
    /\ acquired' = (k \in Limited /\ ~waits)
    /\ api_calls' = api_calls + 1

\* _activity_cycle up to _execute_action: the scan and the strategy give an
\* action of kind k, or one that makes no platform call ("skip": unknown type,
\* no content generated, no target)
ChooseAction(k, waits) ==
    /\ apc = "scan"
    /\ IF k = "skip"
       THEN /\ apc' = "after"
            /\ UNCHANGED <<action, acquired, api_calls>>
       ELSE /\ api_calls < MaxApiCalls
            /\ EnterAction(k, waits)
    /\ ret' = NoRet
    /\ UNCHANGED <<now, is_authenticated, is_active, failures, searching,
                   engaged, cancelled_at, stop_called, stats, action_count,
                   last_action_time>>
    /\ UNCHANGED agentFrame

\* rate_limiter.acquire() returns after its wait
AcquireDone ==
    /\ apc = "acquire"
    /\ apc' = "call"
    /\ acquired' = TRUE
    /\ ret' = NoRet
    /\ UNCHANGED <<now, is_authenticated, is_active, failures, action,
                   searching, engaged, cancelled_at, stop_called, stats,
                   action_count, last_action_time, api_calls>>
    /\ UNCHANGED agentFrame

\* (mutation of Counted: the bookkeeping does not look at the outcome)
CountedAlways(k, res) == k \in Limited

\* post_content / like_post / repost: `if response:` / `if success:`
Counted(k, res) == k \in Limited /\ res = "ok"

\* The platform call returns (or raises, which post_content, like_post, repost
\* and search_posts catch): the bookkeeping, then on to the rest of the cycle.
CallReturns(res) ==
    /\ apc = "call"
    /\ action \in Limited \/ res \in {"ok", "fail"}
    /\ IF Counted(action, res)
       THEN /\ stats' = [stats EXCEPT ![StatOf(action)] = @ + 1]
            /\ action_count' = action_count + 1
            /\ last_action_time' = now
       ELSE UNCHANGED <<stats, action_count, last_action_time>>
    /\ IF action = "search"
       THEN /\ searching' = (res = "ok")
            /\ engaged' = 0
            /\ apc' = IF res = "ok" THEN "engage" ELSE "after"
       ELSE /\ UNCHANGED <<searching, engaged>>
            /\ apc' = IF searching THEN "engage" ELSE "after"
    /\ acquired' = FALSE
    /\ ret' = [op |-> "call", kind |-> action, result |-> res,
               acquired |-> acquired]
    /\ UNCHANGED <<now, is_authenticated, is_active, failures, action,
                   cancelled_at, stop_called, api_calls>>
    /\ UNCHANGED agentFrame

\* the loop of _execute_search_and_engage_action engages with the next post
EngageNext(k, waits) ==
    /\ apc = "engage"
    /\ engaged < MaxEngage
    /\ api_calls < MaxApiCalls
    /\ k \in {"like", "reply", "repost"}
    /\ engaged' = engaged + 1
    /\ EnterAction(k, waits)
    /\ ret' = NoRet
    /\ UNCHANGED <<now, is_authenticated, is_active, failures, searching,
                   cancelled_at, stop_called, stats, action_count,
                   last_action_time>>
    /\ UNCHANGED agentFrame

\* that loop is over
EngageDone ==
    /\ apc = "engage"
    /\ apc' = "after"
    /\ searching' = FALSE
    /\ ret' = NoRet
    /\ UNCHANGED <<now, is_authenticated, is_active, failures, action, engaged,
                   acquired, cancelled_at, stop_called, stats, action_count,
                   last_action_time, api_calls>>
    /\ UNCHANGED agentFrame

\* _update_intelligence returns: the cycle is over, _wait_for_next_action
CycleDone ==
    /\ apc = "after"
    /\ apc' = "delay"
    /\ ret' = NoRet
    /\ UNCHANGED <<now, is_authenticated, is_active, failures, action,
                   searching, engaged, acquired, cancelled_at, stop_called,
                   stats, action_count, last_action_time, api_calls>>
    /\ UNCHANGED agentFrame

\* the cycle raises outside a platform call: start() catches the exception,
\* clears is_active and returns
CycleRaises ==
    /\ apc \in {"scan", "engage", "after"}
    /\ failures' = [failures EXCEPT ![AG] = 1]
    /\ is_active' = [is_active EXCEPT ![AG] = FALSE]
    /\ apc' = "returned"
    /\ searching' = FALSE
    /\ ret' = NoRet
    /\ UNCHANGED <<now, is_authenticated, action, engaged, acquired,
                   cancelled_at, stop_called, stats, action_count,
                   last_action_time, api_calls>>
    /\ UNCHANGED agentFrame

\* (mutation of LoopGoesOn: the loop does not look at is_active)
LoopGoesOnRegardless == TRUE

\* `while self.is_active:`
LoopGoesOn == is_active[AG]

\* _wait_for_next_action is over: the loop tests is_active and either enters
\* the next cycle or ends, and start() returns
DelayDone ==
    /\ apc = "delay"
    /\ apc' = IF LoopGoesOn THEN "scan" ELSE "returned"
    /\ ret' = NoRet
    /\ UNCHANGED <<now, is_authenticated, is_active, failures, action,
                   searching, engaged, acquired, cancelled_at, stop_called,
                   stats, action_count, last_action_time, api_calls>>
    /\ UNCHANGED agentFrame

\* stop()
Stop ==
    /\ is_active' = [is_active EXCEPT ![AG] = FALSE]
    /\ stop_called' = (stop_called \/ is_active[AG])
    /\ ret' = NoRet
    /\ UNCHANGED <<now, is_authenticated, failures, apc, action, searching,
                   engaged, acquired, cancelled_at, stats, action_count,
                   last_action_time, api_calls>>
    /\ UNCHANGED agentFrame

\* stop_campaign: task.cancel() for the agent's task, then bot.stop(); the
\* CancelledError is raised at the await the task is suspended in, and neither
\* `except Exception` of the action nor that of start() catches it
CancelTask ==
    /\ apc \in AgentSuspended
    /\ cancelled_at' = apc
    /\ apc' = "cancelled"
    /\ is_active' = [is_active EXCEPT ![AG] = FALSE]
    /\ ret' = NoRet
    /\ UNCHANGED <<now, is_authenticated, failures, action, searching, engaged,
                   acquired, stop_called, stats, action_count,
                   last_action_time, api_calls>>
    /\ UNCHANGED agentFrame

\* time passes
AgentTick ==
    /\ now < MaxAgentTime
    /\ now' = now + 1
    /\ ret' = NoRet
    /\ UNCHANGED <<is_authenticated, is_active, failures>>
    /\ UNCHANGED agentVars
    /\ UNCHANGED agentFrame

InitAgent ==
    /\ NoStrategy
    /\ NoOther
    /\ now = 1
    /\ ret = NoRet
    /\ max_requests = <<>> /\ time_window = <<>> /\ requests = <<>>
    /\ lock = <<>> /\ waiters = <<>> /\ pc = <<>> /\ wake = <<>> /\ lim = <<>>
    /\ atype = <<>> /\ calls = 0 /\ lastAdmit = <<>> /\ admitted = <<>>
    /\ released = <<>>
    /\ NoAdaptive
    /\ is_running = FALSE /\ phase = "none" /\ retry_count = <<>>
    /\ active_bots = {} /\ bot_tasks = {} /\ accounts_banned = 0
    /\ bpc = <<>> /\ cpc = "none"
    /\ \E authed \in BOOLEAN : is_authenticated = [b \in {AG} |-> authed]
    /\ is_active = [b \in {AG} |-> FALSE]
    /\ failures = [b \in {AG} |-> 0]
    /\ apc = "created"
    /\ action = "none"
    /\ searching = FALSE
    /\ engaged = 0
    /\ acquired = FALSE
    /\ cancelled_at = "none"
    /\ stop_called = FALSE
    /\ stats = [n \in StatNames |-> 0]
    /\ action_count = 0
    /\ last_action_time = 0
    /\ api_calls = 0

NextAgent ==
    \/ Start
    \/ StartAuthDone
    \/ \E k \in Limited \cup Unlimited \cup {"skip"}, waits \in BOOLEAN :
          ChooseAction(k, waits)
    \/ AcquireDone
    \/ \E res \in Outcomes : CallReturns(res)
    \/ \E k \in Limited, waits \in BOOLEAN : EngageNext(k, waits)
    \/ EngageDone
    \/ CycleDone
    \/ CycleRaises
    \/ DelayDone
    \/ Stop
    \/ CancelTask
    \/ AgentTick

SpecAgent == InitAgent /\ [][NextAgent]_vars

-----------------------------------------------------------------------------
(* StrategyEngine (src/generator.py) *)

\* the coordination objectives BotManager hands out, with the priority it
\* gives each
ObjectiveTypes == {"amplify_trending", "coordinated_npc_engagement",
                   "campaign_push"}

PriorityOf(t) == IF t = "coordinated_npc_engagement" THEN "medium" ELSE "high"

\* _get_priority_score
PriorityScore(p) ==
    CASE p = "low" -> 1
      [] p = "medium" -> 2
      [] p = "high" -> 3
      [] p = "urgent" -> 4
      [] OTHER -> 1

\* the actions get_next_action can return, as (type, content_type)
Act(t, c) == [type |-> t, content_type |-> c]

SearchAndEngage == Act("search_and_engage", "none")

\* the keys update_from_action_results writes into action_cooldowns
ActionKeys == {"post", "search_and_engage"}

\* content_strategy['political_ratio'], in tenths
political_ratio == 4

\* the outcomes of random.uniform in _weighted_random_choice: the option in
\* whose interval the draw falls (every weight is positive)
Draws == 1..4

\* _weighted_random_choice: the first option whose cumulative weight reaches
\* the draw, the last one when none does
WeightedRandomChoice(options, r) ==
    IF r <= Len(options) THEN options[r] ELSE options[Len(options)]

\* max(self.coordination_objectives, key=score): the first of the objectives
\* with the greatest score
MaxObjective(q) ==
    CHOOSE i \in 1..Len(q) :
        /\ \A j \in 1..Len(q) :
              PriorityScore(q[j].priority) <= PriorityScore(q[i].priority)
        /\ \A j \in 1..(i - 1) :
              PriorityScore(q[j].priority) < PriorityScore(q[i].priority)

\* _can_execute_objective
CanExecuteObjective(o, cooldowns, topics) ==
    IF o.type \in cooldowns THEN FALSE
    ELSE IF o.type = "amplify_trending" THEN topics
    ELSE TRUE

\* equality of two objectives as Python compares the dicts (the id is not
\* part of the dict)
SameObjective(a, b) == a.type = b.type /\ a.priority = b.priority

\* (mutation of RemoveObjective: the objective stays in the list)
RemoveNothing(q, o) == q

\* list.remove(objective): the first element equal to it goes
RemoveObjective(q, o) ==
    LET i == CHOOSE k \in 1..Len(q) :
                 /\ SameObjective(q[k], o)
                 /\ \A j \in 1..(k - 1) : ~SameObjective(q[j], o)
    IN  [k \in 1..(Len(q) - 1) |-> IF k < i THEN q[k] ELSE q[k + 1]]

\* _convert_objective_to_action
ConvertObjectiveToAction(o) ==
    CASE o.type = "amplify_trending" -> Act("post", "trending_engagement")
      [] o.type = "coordinated_npc_engagement" -> SearchAndEngage
      [] o.type = "campaign_push" -> Act("post", "political")
      [] OTHER -> Act("post", "neutral")

\* _check_coordination_objectives: the action, or found = FALSE for None,
\* and the list it leaves
CheckCoordinationObjectives(q, cooldowns, topics) ==
    IF q = <<>>
    THEN [found |-> FALSE, id |-> 0, action |-> Act("none", "none"), queue |-> q]
    ELSE LET objective == q[MaxObjective(q)]
         IN  IF CanExecuteObjective(objective, cooldowns, topics)
             THEN [found |-> TRUE, id |-> objective.id,
                   action |-> ConvertObjectiveToAction(objective),
                   queue |-> RemoveObjective(q, objective)]
             ELSE [found |-> FALSE, id |-> 0, action |-> Act("none", "none"),
                   queue |-> q]

\* _get_audience_building_action
AudienceBuildingAction(r) ==
    LET action_type == WeightedRandomChoice(
            <<"post_personal", "engage_trending", "community_engagement">>, r)
    IN  IF action_type = "post_personal"
        THEN Act("post", "audience_building")
        ELSE SearchAndEngage

\* recent_political_posts of _get_political_influence_action
PoliticalPosts(h) ==
    Cardinality({i \in 1..Len(h) : h[i].content_type = "political"})

\* total_recent_posts of _get_political_influence_action
RecentPosts(h) == Cardinality({i \in 1..Len(h) : h[i].type = "post"})

\* (mutation of NeedsPolitical: the ratio is taken over the posts alone, so an
\* empty history is not below the target)
NeedsPoliticalOverPosts(h) ==
    PoliticalPosts(h) * 10 < political_ratio * RecentPosts(h)

\* current_political_ratio < target_political_ratio, the ratio being
\* recent_political_posts / max(1, total_recent_posts)
NeedsPolitical(h) ==
    PoliticalPosts(h) * 10 < political_ratio * Max(1, RecentPosts(h))

\* _get_political_influence_action
PoliticalInfluenceAction(h, r) ==
    IF NeedsPolitical(h)
    THEN Act("post", "political")
    ELSE LET action_type == WeightedRandomChoice(
                 <<"post_neutral", "political_engagement", "npc_targeting",
                   "trending_political">>, r)
         IN  IF action_type = "post_neutral"
             THEN Act("post", "neutral")
             ELSE SearchAndEngage

\* recent_actions.append on a deque with maxlen: the oldest entry goes when
\* the deque is full
Remember(h, a) ==
    IF Len(h) < MaxRecent THEN Append(h, a) ELSE Append(Tail(h), a)

\* get_next_action: what it returns and what it leaves behind
GetNextAction(q, h, cooldowns, topics, ph, r) ==
    LET coordination_action == CheckCoordinationObjectives(q, cooldowns, topics)
    IN  IF coordination_action.found
        THEN [source |-> "directive", id |-> coordination_action.id,
              action |-> coordination_action.action,
              queue |-> coordination_action.queue, recent |-> h]
        ELSE LET act == IF ph = "audience_building"
                        THEN AudienceBuildingAction(r)
                        ELSE PoliticalInfluenceAction(h, r)
             IN  [source |-> "organic", id |-> 0, action |-> act,
                  queue |-> coordination_action.queue,
                  recent |-> Remember(h, act)]

\* _activity_cycle up to the action it is about to execute: the scan's
\* trending topics go into current_context (update_context), then
\* get_next_action decides
ActivityCycle(topics, r) ==
    /\ spc = "idle"
    /\ LET res == GetNextAction(coordination_objectives, recent_actions,
                                action_cooldowns, topics, current_phase, r)
       IN  /\ coordination_objectives' = res.queue
           /\ recent_actions' = res.recent
           /\ decision' = [source |-> res.source, id |-> res.id,
                           type |-> res.action.type,
                           content_type |-> res.action.content_type]
           /\ converted' = IF res.source = "directive"
                           THEN [converted EXCEPT ![res.id] = @ + 1]
                           ELSE converted
    /\ trending_topics' = topics
    /\ spc' = "executing"
    /\ UNCHANGED <<action_cooldowns, current_phase, enqueued>>
    /\ UNCHANGED nonStratVars

\* _execute_action returned: update_from_action_results stamps the cooldown
\* of the action's type
UpdateFromActionResults ==
    /\ spc = "executing"
    /\ action_cooldowns' = action_cooldowns \cup {decision.type}
    /\ spc' = "idle"
    /\ UNCHANGED <<coordination_objectives, recent_actions, trending_topics,
                   current_phase, decision, enqueued, converted>>
    /\ UNCHANGED nonStratVars

\* _execute_action raised: the cycle ends without update_from_action_results
ExecuteRaises ==
    /\ spc = "executing"
    /\ spc' = "idle"
    /\ UNCHANGED <<coordination_objectives, recent_actions, trending_topics,
                   action_cooldowns, current_phase, decision, enqueued,
                   converted>>
    /\ UNCHANGED nonStratVars

\* time passes and the stamp of one key is no longer in the future
CooldownExpires(k) ==
    /\ k \in action_cooldowns
    /\ action_cooldowns' = action_cooldowns \ {k}
    /\ UNCHANGED <<coordination_objectives, recent_actions, trending_topics,
                   current_phase, decision, spc, enqueued, converted>>
    /\ UNCHANGED nonStratVars

\* get_current_phase: the runtime reaches audience_building_days
PhaseAdvances ==
    /\ current_phase = "audience_building"
    /\ current_phase' = "political_influence"
    /\ UNCHANGED <<coordination_objectives, recent_actions, trending_topics,
                   action_cooldowns, decision, spc, enqueued, converted>>
    /\ UNCHANGED nonStratVars

\* add_coordination_objective, called by the manager's coordination cycle;
\* campaign_push is handed out in the political phase only
AddCoordinationObjective(t) ==
    /\ enqueued < MaxDirectives
    /\ t = "campaign_push" => current_phase = "political_influence"
    /\ enqueued' = enqueued + 1
    /\ coordination_objectives' =
           Append(coordination_objectives,
                  [id |-> enqueued + 1, type |-> t, priority |-> PriorityOf(t)])
    /\ converted' = Append(converted, 0)
    /\ UNCHANGED <<recent_actions, trending_topics, action_cooldowns,
                   current_phase, decision, spc>>
    /\ UNCHANGED nonStratVars

InitStrat ==
    /\ coordination_objectives = <<>>
    /\ recent_actions = <<>>
    /\ trending_topics = FALSE
    /\ action_cooldowns = {}
    /\ current_phase = "audience_building"
    /\ decision = NoDecision
    /\ spc = "idle"
    /\ enqueued = 0
    /\ converted = <<>>
    /\ NoLimiter
    /\ atype = <<>> /\ calls = 0 /\ lastAdmit = <<>> /\ admitted = <<>>
    /\ released = <<>> /\ ret = NoRet
    /\ NoAdaptive
    /\ NoManager
    /\ NoAgent
    /\ NoOther

NextStrat ==
    \/ \E topics \in BOOLEAN, r \in Draws : ActivityCycle(topics, r)
    \/ UpdateFromActionResults
    \/ ExecuteRaises
    \/ \E k \in ActionKeys : CooldownExpires(k)
    \/ PhaseAdvances
    \/ \E t \in ObjectiveTypes : AddCoordinationObjective(t)

SpecStrat == InitStrat /\ [][NextStrat]_vars

\* The agent keeps making decisions: its activity cycles go on, and each
\* execution comes to an end.  What the scans find, which directives arrive and
\* when cooldowns run out is left open.
FairStrat ==
    /\ WF_vars(\E topics \in BOOLEAN, r \in Draws : ActivityCycle(topics, r))
    /\ WF_vars(UpdateFromActionResults \/ ExecuteRaises)

SpecStratLive == InitStrat /\ [][NextStrat]_vars /\ FairStrat

-----------------------------------------------------------------------------
(* Weighted choice: StrategyEngine._weighted_random_choice (src/generator.py) *)
(* and weighted_choice (src/secrent_ingredient/src helpers.py)               *)

\* the weights an option can have
WeightValues == (0 - MaxWeight)..MaxWeight

RECURSIVE SumTo(_, _)
\* the weight accumulated over the first n options (current_weight)
SumTo(ws, n) == IF n = 0 THEN 0 ELSE SumTo(ws, n - 1) + ws[n]

\* total_weight = sum(weight for _, weight in options)
TotalWeight(ws) == SumTo(ws, Len(ws))

\* what random.uniform(0, total) can give, in halves: 0 + total * random()
\* with random() in [0, 1); for a positive total rounding may give the end
\* point
UniformDraws(total) ==
    IF total >= 0 THEN 0..(2 * total) ELSE (2 * total + 1)..0

\* the loop of both functions: the first option whose accumulated weight
\* reaches the draw, the last option when none does
FirstReached(ws, r2) ==
    IF \E i \in 1..Len(ws) : r2 <= 2 * SumTo(ws, i)
    THEN CHOOSE i \in 1..Len(ws) :
             /\ r2 <= 2 * SumTo(ws, i)
             /\ \A j \in 1..(i - 1) : ~(r2 <= 2 * SumTo(ws, j))
    ELSE Len(ws)

\* StrategyEngine._weighted_random_choice: the index of the option returned
StrategyChoice(ws, r2) ==
    IF TotalWeight(ws) = 0 THEN 1 ELSE FirstReached(ws, r2)

\* helpers.weighted_choice: the index of the item returned; pick is what
\* random.choice takes when the total is not positive
HelperChoice(ws, r2, pick) ==
    IF TotalWeight(ws) <= 0 THEN pick ELSE FirstReached(ws, r2)

choiceFrame == <<limVars, arlVars, mgrVars, agentVars, stratVars, statVars,
                 fleetVars,
    distVars,
    scanVars,
    sentVars,
    campVars,
    hdrVars,
    tgtVars>>

\* a call of StrategyEngine._weighted_random_choice(options)
WeightedRandomChoiceCall(r2) ==
    /\ chosen' = [op |-> "_weighted_random_choice", draw |-> r2,
                  item |-> StrategyChoice(choices, r2)]
    /\ UNCHANGED choices
    /\ UNCHANGED choiceFrame

\* a call of helpers.weighted_choice(choices)
WeightedChoiceCall(r2, pick) ==
    /\ chosen' = [op |-> "weighted_choice", draw |-> r2,
                  item |-> HelperChoice(choices, r2, pick)]
    /\ UNCHANGED choices
    /\ UNCHANGED choiceFrame

InitChoice ==
    /\ \E n \in 1..MaxOptions : choices \in [1..n -> WeightValues]
    /\ chosen = [op |-> "none"]
    /\ NoCore
    /\ NoStats
    /\ NoFleet
    /\ NoDist
    /\ NoScan
    /\ NoSentiment
    /\ NoCampaign
    /\ NoReset
    /\ NoTargets

NextChoice ==
    \/ \E r2 \in UniformDraws(TotalWeight(choices)) : WeightedRandomChoiceCall(r2)
    \/ \E r2 \in UniformDraws(TotalWeight(choices)), pick \in 1..Len(choices) :
          WeightedChoiceCall(r2, pick)

SpecChoice == InitChoice /\ [][NextChoice]_vars

-----------------------------------------------------------------------------
(* Team statistics of BotManager (src/mamager.py) *)

Npcs == 1..NumNpcs

\* (mutation of AllNpcs: each bot's set replaces what was collected)
AllNpcsLastBot(active, sets) ==
    IF active = {} THEN {}
    ELSE sets[CHOOSE b \in active : \A c \in active : c <= b]

\* all_npcs of _update_team_statistics: all_npcs.update(bot.engaged_npcs) for
\* every bot of active_bots
AllNpcs(active, sets) == UNION {sets[b] : b \in active}

statFrame == <<limVars, arlVars, agentVars, stratVars, choiceVars, fleetVars,
               is_running, phase, is_authenticated, is_active, retry_count,
               bot_tasks, accounts_banned, bpc, failures, cpc,
    distVars,
    scanVars,
    sentVars,
    campVars,
    hdrVars,
    tgtVars>>

\* start_campaign: self.active_bots[bot.bot_id] = bot
BotBecomesActive(b) ==
    /\ b \notin active_bots
    /\ active_bots' = active_bots \cup {b}
    /\ stats_current' = FALSE
    /\ UNCHANGED <<engaged_npcs, unique_npcs_reached, unique_npcs_count>>
    /\ UNCHANGED statFrame

\* _execute_engagement_action: self.engaged_npcs.add(post_author)
EngageNpc(b, n) ==
    /\ b \in active_bots
    /\ n \notin engaged_npcs[b]
    /\ Cardinality(engaged_npcs[b]) < MaxPerBot
    /\ engaged_npcs' = [engaged_npcs EXCEPT ![b] = @ \cup {n}]
    /\ stats_current' = FALSE
    /\ UNCHANGED <<active_bots, unique_npcs_reached, unique_npcs_count>>
    /\ UNCHANGED statFrame

\* _update_team_statistics
UpdateTeamStatistics ==
    /\ unique_npcs_reached' = AllNpcs(active_bots, engaged_npcs)
    /\ stats_current' = TRUE
    /\ UNCHANGED <<active_bots, engaged_npcs, unique_npcs_count>>
    /\ UNCHANGED statFrame

\* get_team_performance_report: 'unique_npcs_count'
GetTeamPerformanceReport ==
    /\ unique_npcs_count' = Cardinality(unique_npcs_reached)
    /\ UNCHANGED <<active_bots, engaged_npcs, unique_npcs_reached, stats_current>>
    /\ UNCHANGED statFrame

InitStats ==
    /\ engaged_npcs = [b \in Bots |-> {}]
    /\ unique_npcs_reached = {}
    /\ unique_npcs_count = 0
    /\ stats_current = FALSE
    /\ NoCore
    /\ NoChoice
    /\ NoFleet
    /\ NoDist
    /\ NoScan
    /\ NoSentiment
    /\ NoCampaign
    /\ NoReset
    /\ NoTargets

NextStats ==
    \/ \E b \in Bots : BotBecomesActive(b)
    \/ \E b \in Bots, n \in Npcs : EngageNpc(b, n)
    \/ UpdateTeamStatistics
    \/ GetTeamPerformanceReport

SpecStats == InitStats /\ [][NextStats]_vars

-----------------------------------------------------------------------------
(* BotManager.create_bot_fleet (src/mamager.py) *)

RECURSIVE CreatedBots(_, _, _)
\* the loop of create_bot_fleet from index i on (indices count from 1 here):
\* an entry without username or password is skipped, the others get a bot
CreatedBots(creds, i, num_bots) ==
    IF i > num_bots \/ i > Len(creds) THEN <<>>
    ELSE IF ~creds[i] THEN CreatedBots(creds, i + 1, num_bots)
    ELSE <<i>> \o CreatedBots(creds, i + 1, num_bots)

\* create_bot_fleet(num_bots): the bots it leaves and what it returns
CreateBotFleetResult(creds, has_personas, fleet, num_bots) ==
    IF Len(creds) < num_bots THEN [bots |-> fleet, result |-> FALSE]
    ELSE IF ~has_personas THEN [bots |-> fleet, result |-> FALSE]
    ELSE LET after == fleet \o CreatedBots(creds, 1, num_bots)
         IN  [bots |-> after, result |-> Len(after) > 0]

fleetFrame == <<limVars, arlVars, mgrVars, agentVars, stratVars, choiceVars,
                statVars,
    distVars,
    scanVars,
    sentVars,
    campVars,
    hdrVars,
    tgtVars>>

CreateBotFleet(num_bots) ==
    /\ fleet_calls < MaxFleetCalls
    /\ fleet_calls' = fleet_calls + 1
    /\ LET res == CreateBotFleetResult(account_credentials, personas, bots,
                                       num_bots)
       IN  /\ bots' = res.bots
           /\ fleet_ret' = [op |-> "create_bot_fleet", num_bots |-> num_bots,
                            before |-> Len(bots), result |-> res.result]
    /\ UNCHANGED <<account_credentials, personas>>
    /\ UNCHANGED fleetFrame

InitFleet ==
    /\ \E n \in 0..MaxAccounts : account_credentials \in [1..n -> BOOLEAN]
    /\ personas \in BOOLEAN
    /\ bots = <<>>
    /\ fleet_calls = 0
    /\ fleet_ret = [op |-> "none"]
    /\ NoCore
    /\ NoChoice
    /\ NoStats
    /\ NoDist
    /\ NoScan
    /\ NoSentiment
    /\ NoCampaign
    /\ NoReset
    /\ NoTargets

NextFleet == \E num_bots \in 1..(MaxAccounts + 1) : CreateBotFleet(num_bots)

SpecFleet == InitFleet /\ [][NextFleet]_vars

-----------------------------------------------------------------------------
(* BotManager._distribute_coordination_tasks (src/mamager.py) *)

\* the first n entries of a list, and the rest (Python slices)
Take(q, n) == SubSeq(q, 1, Min(n, Len(q)))
Drop(q, n) == SubSeq(q, Min(n, Len(q)) + 1, Len(q))

\* the active bots in the order of the dict: the order start_campaign put
\* them in, which is the order of self.bots
RECURSIVE Ascending(_)
Ascending(S) ==
    IF S = {} THEN <<>>
    ELSE LET b == CHOOSE x \in S : \A y \in S : x <= y
         IN  <<b>> \o Ascending(S \ {b})

\* (mutation of Rotated: the list stays as it is)
RotatedNot(q, n) == q

\* available_bots[bot_count:] + available_bots[:bot_count]
Rotated(q, n) == Drop(q, n) \o Take(q, n)

distFrame == <<limVars, arlVars, mgrVars, agentVars, stratVars, choiceVars,
               statVars, fleetVars,
    scanVars,
    sentVars,
    campVars,
    hdrVars,
    tgtVars>>

\* one pass of the loop over the opportunities: the selected bots all get
\* the signal (add_coordination_objective does not suspend)
DistributeNext ==
    /\ Len(selected_bots) < Len(opportunities)
    /\ LET opportunity == opportunities[Len(selected_bots) + 1]
           bot_count == Min(opportunity, Len(available_bots))
       IN  IF bot_count = 0
           THEN /\ selected_bots' = Append(selected_bots, <<>>)
                /\ UNCHANGED available_bots
           ELSE /\ selected_bots' = Append(selected_bots,
                                          Take(available_bots, bot_count))
                /\ available_bots' = Rotated(available_bots, bot_count)
    /\ UNCHANGED <<opportunities, team>>
    /\ UNCHANGED distFrame

InitDist ==
    /\ \E S \in SUBSET Bots : S # {} /\ team = Ascending(S)
    /\ available_bots = team
    /\ \E n \in 1..MaxOpportunities :
          opportunities \in [1..n -> 1..MaxBotCount]
    /\ selected_bots = <<>>
    /\ NoCore
    /\ NoChoice
    /\ NoStats
    /\ NoFleet
    /\ NoScan
    /\ NoSentiment
    /\ NoCampaign
    /\ NoReset
    /\ NoTargets

NextDist == DistributeNext

SpecDist == InitDist /\ [][NextDist]_vars

-----------------------------------------------------------------------------
(* EnvironmentalScanner.scan_environment (src/generator.py) *)

\* the sub-scans, by the section of the snapshot each one fills
ListSections == {"trending_topics", "influential_posts"}
DictSections == {"feed_analysis", "political_sentiment", "npc_activity"}
Sections == ListSections \cup DictSections

\* what a section can hold: no such key, the empty list or dict, a dict
\* whose counters are all zero and whose lists are empty, or data found on
\* the platform
Missing == [kind |-> "missing", id |-> 0]
EmptyValue == [kind |-> "empty", id |-> 0]
Zeros == [kind |-> "zeros", id |-> 0]
Data == {[kind |-> "data", id |-> k] : k \in 1..MaxData}

\* bool(value): an empty list is false; the dicts the sub-scans return have
\* keys, so they are true
Truthy(v) == v.kind \in {"zeros", "data"}

\* what a sub-scan can return. _scan_trending_topics and
\* _identify_influential_content return [] when they fail; the others return
\* the dict they were filling, with whatever they had counted when the
\* exception came.
Returns(s, failed) ==
    IF s \in ListSections
    THEN IF failed THEN {EmptyValue} ELSE {EmptyValue} \cup Data
    ELSE {Zeros} \cup Data

\* the snapshot as scan_environment sets it up before the sub-scans run
DefaultSection(s) == IF s = "feed_analysis" THEN Missing ELSE EmptyValue

\* `if i == k and result: intelligence[section] = result`
Snapshot(results) ==
    [s \in Sections |-> IF Truthy(results[s]) THEN results[s]
                        ELSE DefaultSection(s)]

\* `self.trending_topics = result` and `self.political_sentiment = result`
\* sit under the same `and result`
Held(old, result) == IF Truthy(result) THEN result ELSE old

\* StrategyEngine.update_context: current_context.update(intelligence)
UpdatedContext(ctx, snap) ==
    [s \in Sections |-> IF snap[s] = Missing THEN ctx[s] ELSE snap[s]]

scanFrame == <<limVars, arlVars, mgrVars, agentVars, stratVars, choiceVars,
               statVars, fleetVars, distVars,
    sentVars,
    campVars,
    hdrVars,
    tgtVars>>

\* _activity_cycle: scan_environment returns and update_context takes the
\* snapshot. failed: the sub-scans that raised inside; analysis_raises: the
\* analysis after the sub-scans raised and scan_environment returned from
\* its except branch
ScanEnvironment(failed, results, analysis_raises) ==
    /\ scan_failed' = failed
    /\ scan_results' = results
    /\ intelligence' = Snapshot(results)
    /\ held_trending_topics' =
           Held(held_trending_topics, results["trending_topics"])
    /\ political_sentiment' =
           Held(political_sentiment, results["political_sentiment"])
    /\ scan_completed' = ~analysis_raises
    /\ current_context' = UpdatedContext(current_context, Snapshot(results))
    /\ UNCHANGED scanFrame

InitScan ==
    /\ intelligence = [s \in Sections |-> DefaultSection(s)]
    /\ scan_results = [s \in Sections |-> EmptyValue]
    /\ scan_failed = {}
    /\ scan_completed = FALSE
    /\ held_trending_topics = EmptyValue
    /\ political_sentiment = Zeros
    /\ current_context = [s \in Sections |-> Missing]
    /\ NoCore
    /\ NoChoice
    /\ NoStats
    /\ NoFleet
    /\ NoDist
    /\ NoSentiment
    /\ NoCampaign
    /\ NoReset
    /\ NoTargets

NextScan ==
    \E failed \in SUBSET Sections, analysis_raises \in BOOLEAN :
      \E t \in Returns("trending_topics", "trending_topics" \in failed),
         f \in Returns("feed_analysis", "feed_analysis" \in failed),
         p \in Returns("political_sentiment", "political_sentiment" \in failed),
         n \in Returns("npc_activity", "npc_activity" \in failed),
         i \in Returns("influential_posts", "influential_posts" \in failed) :
        ScanEnvironment(failed,
                        [s \in Sections |->
                            CASE s = "trending_topics" -> t
                              [] s = "feed_analysis" -> f
                              [] s = "political_sentiment" -> p
                              [] s = "npc_activity" -> n
                              [] OTHER -> i],
                        analysis_raises)

SpecScan == InitScan /\ [][NextScan]_vars

-----------------------------------------------------------------------------
(* BotActionLimiter.handle_response (src/limiter.py), with the capacities of
   BotActionLimiter.__init__ *)

RespTypes == {"post", "like", "repost", "follow", "search"}

\* the limiters of BotActionLimiter.__init__: every limiter of self.limiters
\* is a RateLimiter, the overall limiter is an AdaptiveRateLimiter
RespCapacity(l) ==
    CASE l = OverallLimiter -> 8
      [] l = "post" -> 2
      [] l = "like" -> 5
      [] l = "repost" -> 2
      [] l = "follow" -> 2
      [] l = "search" -> 10

\* isinstance(limiter, AdaptiveRateLimiter)
IsAdaptive(l) == l = OverallLimiter

\* the default adaptation_factor of AdaptiveRateLimiter, in hundredths
default_adaptation_factor == 80

\* handle_rate_limit_response on an adaptive limiter with capacity m: the
\* capacity and the counters it leaves
AdaptiveUpdate(m, st, h) ==
    CASE st = "429" ->
             LET n == consecutive_rate_limits + 1
                 m1 == IF ShrinkDue(n) THEN Shrunk(m, adaptation_factor) ELSE m
             IN  [max |-> HeaderAdjusted(m1, h), fails |-> n, succ |-> 0,
                  rec |-> recovery_attempts]
      [] st = "2xx" ->
             LET n == consecutive_successes + 1
             IN  IF /\ n >= recovery_threshold
                    /\ m < original_max_requests
                    /\ recovery_attempts < max_recovery_attempts
                 THEN [max |-> Recovered(m, original_max_requests), fails |-> 0,
                       succ |-> 0, rec |-> recovery_attempts + 1]
                 ELSE [max |-> m, fails |-> 0, succ |-> n,
                       rec |-> recovery_attempts]
      [] OTHER -> [max |-> m, fails |-> consecutive_rate_limits,
                   succ |-> consecutive_successes, rec |-> recovery_attempts]

\* handle_response(action_type, status_code, headers): the overall limiter
\* handles the response; the limiter of the type handles it only if it is an
\* AdaptiveRateLimiter
HandleResponse(a, st, h) ==
    /\ st = "429" => consecutive_rate_limits < MaxFailures
    /\ st = "2xx" => consecutive_successes < MaxStreak
    /\ LET upd == AdaptiveUpdate(max_requests[OverallLimiter], st, h)
       IN  /\ max_requests' =
                 [l \in DOMAIN max_requests |->
                     IF l = OverallLimiter THEN upd.max
                     ELSE IF l = a /\ IsAdaptive(l)
                          THEN AdaptiveUpdate(max_requests[l], st, h).max
                          ELSE max_requests[l]]
           /\ consecutive_rate_limits' = upd.fails
           /\ consecutive_successes' = upd.succ
           /\ recovery_attempts' = upd.rec
    /\ ret' = [op |-> "handle_response", atype |-> a, status |-> st]
    /\ UNCHANGED <<now, time_window, requests, lock, waiters, pc, wake, lim,
                   atype, calls, lastAdmit, admitted, released>>
    /\ UNCHANGED <<original_max_requests, adaptation_factor>>
    /\ UNCHANGED <<mgrVars, agentVars, stratVars, otherVars>>

InitResp ==
    /\ max_requests = [l \in RespTypes \cup {OverallLimiter} |-> RespCapacity(l)]
    /\ original_max_requests = RespCapacity(OverallLimiter)
    /\ adaptation_factor = ClampFactor(default_adaptation_factor)
    /\ consecutive_successes = 0
    /\ consecutive_rate_limits = 0
    /\ recovery_attempts = 0
    /\ now = 0
    /\ time_window = <<>> /\ requests = <<>> /\ lock = <<>> /\ waiters = <<>>
    /\ pc = <<>> /\ wake = <<>> /\ lim = <<>> /\ atype = <<>> /\ calls = 0
    /\ lastAdmit = <<>> /\ admitted = <<>> /\ released = <<>>
    /\ ret = NoRet
    /\ NoManager
    /\ NoAgent
    /\ NoStrategy
    /\ NoOther

NextResp ==
    \E a \in RespTypes, st \in StatusCodes, h \in Headers : HandleResponse(a, st, h)

SpecResp == InitResp /\ [][NextResp]_vars

-----------------------------------------------------------------------------
(* EnvironmentalScanner._analyze_post_sentiment (src/generator.py).  A post is
   given by the number of keywords of each list it contains; strengths are in
   fifteenths, so that x/5 and x/3 are whole numbers. *)

Counts == 0..MaxCount

\* (mutation of PositiveStrength: the strength is not capped at 1.0)
PositiveStrengthUncapped(c, p) == ((c + p) * 15) \div 5

\* min(1.0, (candidate_score + positive_score) / 5)
PositiveStrength(c, p) == Min(15, ((c + p) * 15) \div 5)

\* min(1.0, negative_score / 3)
NegativeStrength(n) == Min(15, (n * 15) \div 3)

\* the if / elif chain of _analyze_post_sentiment
AnalyzePostSentimentResult(v, m, p, n) ==
    IF v > m /\ p > n
    THEN [op |-> "analyzed", candidate |-> "victor", type |-> "positive",
          strength |-> PositiveStrength(v, p)]
    ELSE IF m > v /\ p > n
    THEN [op |-> "analyzed", candidate |-> "marina", type |-> "positive",
          strength |-> PositiveStrength(m, p)]
    ELSE IF n > p
    THEN [op |-> "analyzed", candidate |-> "none", type |-> "negative",
          strength |-> NegativeStrength(n)]
    ELSE [op |-> "analyzed", candidate |-> "none", type |-> "neutral",
          strength |-> 0]

sentFrame == <<limVars, arlVars, mgrVars, agentVars, stratVars, choiceVars,
    statVars, fleetVars, distVars, scanVars,
    campVars,
    hdrVars,
    tgtVars>>

\* _analyze_post_sentiment(content) for a content with these keyword matches
AnalyzePostSentiment(v, m, p, n) ==
    /\ scores' = [victor |-> v, marina |-> m, positive |-> p, negative |-> n]
    /\ sentiment' = AnalyzePostSentimentResult(v, m, p, n)
    /\ UNCHANGED sentFrame

InitSent ==
    /\ scores = [victor |-> 0, marina |-> 0, positive |-> 0, negative |-> 0]
    /\ sentiment = [op |-> "none"]
    /\ NoCore
    /\ NoChoice
    /\ NoStats
    /\ NoFleet
    /\ NoDist
    /\ NoScan
    /\ NoCampaign
    /\ NoReset
    /\ NoTargets

NextSent ==
    \E v \in Counts, m \in Counts, p \in Counts, n \in Counts :
        AnalyzePostSentiment(v, m, p, n)

SpecSent == InitSent /\ [][NextSent]_vars

-----------------------------------------------------------------------------
(* BotManager.start_campaign as a whole: it awaits
   asyncio.gather over the bots' tasks and the coordination task and runs
   stop_campaign in its `finally`.  stop_campaign can also be called from
   outside (StopCampaign), as cleanup() of src/client.py does. *)

\* the gather of start_campaign is over: every task is done, or a bot's task
\* was cancelled and gather raises CancelledError at once
GatherOver ==
    \/ \E b \in bot_tasks : bpc[b] = "cancelled"
    \/ /\ \A b \in bot_tasks : bpc[b] = "ended"
       /\ cpc = "ended"

\* a history counter, counted up to MaxCoordWrites
UpTo(n) == IF n < MaxCoordWrites THEN n + 1 ELSE n

\* `finally: await self.stop_campaign()`, after which start_campaign is over
FinallyStopCampaign ==
    /\ phase \in {"running", "stopped"}
    /\ GatherOver
    /\ is_running' = FALSE
    /\ phase' = "returned"
    /\ bpc' = [b \in Bots |-> IF bpc[b] \in Suspended THEN "cancelled" ELSE bpc[b]]
    /\ is_active' = [b \in Bots |-> IF b \in active_bots THEN FALSE ELSE is_active[b]]
    /\ UNCHANGED <<is_authenticated, retry_count, active_bots, bot_tasks,
                   accounts_banned, failures>>
    /\ UNCHANGED <<cpc, nonMgrVars>>

\* _coordinate_team_strategy, resumed after its last `await
\* bot.get_trending_topics()`, runs to its end without suspending: with no
\* active bot it returns at once; otherwise it rewrites team_stats and, when
\* there are opportunities, enqueues directives.  Then the loop sleeps.
CoordinateTeamStrategy ==
    /\ cpc = "cycle"
    /\ cpc' = "sleep"
    /\ \E found \in BOOLEAN :
          /\ stats_updates' = IF active_bots # {} THEN UpTo(stats_updates)
                                                  ELSE stats_updates
          /\ signals_sent' = IF active_bots # {} /\ found
                             THEN UpTo(signals_sent) ELSE signals_sent
    /\ UNCHANGED <<limVars, arlVars, agentVars, stratVars, choiceVars, statVars,
                   fleetVars, distVars, scanVars, sentVars, hdrVars, tgtVars>>
    /\ UNCHANGED <<is_running, phase, is_authenticated, is_active, retry_count,
                   active_bots, bot_tasks, accounts_banned, bpc, failures>>

InitCampaign == InitMgr

NextCampaign ==
    \/ StartCampaign
    \/ \E b \in Bots : Authenticate(b)
    \/ LaunchTasks
    \/ \E b \in Bots : RunBot(b)
    \/ \E b \in Bots : CycleOk(b)
    \/ \E b \in Bots : CycleError(b)
    \/ \E b \in Bots : WaitDone(b)
    \/ StopCampaign
    \/ FinallyStopCampaign
    \/ CoordinateTeamStrategy
    \/ CoordinateError
    \/ CoordSleepDone

SpecCampaign == InitCampaign /\ [][NextCampaign]_vars

\* The event loop runs every task that can run; whether a cycle raises and
\* whether stop_campaign is called from outside is left open.
FairCampaign ==
    /\ WF_vars(\E b \in Bots : Authenticate(b))
    /\ WF_vars(LaunchTasks)
    /\ WF_vars(\E b \in Bots : RunBot(b) \/ CycleOk(b) \/ WaitDone(b))
    /\ WF_vars(FinallyStopCampaign)
    /\ WF_vars(CoordinateTeamStrategy \/ CoordinateError)
    /\ WF_vars(CoordSleepDone)

SpecCampaignLive == InitCampaign /\ [][NextCampaign]_vars /\ FairCampaign

-----------------------------------------------------------------------------
(* One AdaptiveRateLimiter on which tasks call acquire() while responses are
   handled, with the clock.  The reset time of the headers is an absolute
   time, NoTime when the headers have no remaining = 0 or no reset time. *)

ResetTimes == {NoTime} \cup (1..MaxTime)

\* the headers of a response without the part about the reset time; the
\* limit they declare, if any, is positive
LimitHeaders == {h \in Headers : ~h.wait /\ (h.has_limit => h.limit > 0)}

\* if 0 < wait_time <= 3600, with wait_time = reset_time - now
WaitsForReset(reset, t_now) ==
    reset # NoTime /\ 0 < reset - t_now /\ reset - t_now <= MaxHeaderWait

\* handle_rate_limit_response(status_code, headers) of a task that gets the
\* lock at once: the counters and the capacity change, and on a 429 whose
\* headers say so the task sleeps wait_time + 1 inside the lock.  The calls
\* of the handler count towards MaxCalls like those of acquire().
HandleTimedResponse(t, st, h, reset) ==
    /\ pc[t] = "idle"
    /\ lock[ARL] = NoTask
    /\ waiters[ARL] = <<>>
    /\ calls < MaxCalls
    /\ calls' = calls + 1
    /\ st = "429" => consecutive_rate_limits < MaxFailures
    /\ st = "2xx" => consecutive_successes < MaxTimedStreak
    /\ st # "429" => reset = NoTime
    /\ LET upd == AdaptiveUpdate(max_requests[ARL], st, h)
           sleeps == st = "429" /\ WaitsForReset(reset, now)
       IN  /\ max_requests' = [max_requests EXCEPT ![ARL] = upd.max]
           /\ consecutive_rate_limits' = upd.fails
           /\ consecutive_successes' = upd.succ
           /\ recovery_attempts' = upd.rec
           /\ pc' = [pc EXCEPT ![t] = IF sleeps THEN "header_sleep" ELSE "idle"]
           /\ lock' = [lock EXCEPT ![ARL] = IF sleeps THEN t ELSE NoTask]
           /\ lim' = [lim EXCEPT ![t] = IF sleeps THEN ARL ELSE ""]
           /\ wake' = [wake EXCEPT ![t] = IF sleeps THEN reset + 1 ELSE 0]
    /\ reset_at' = IF st = "429" THEN reset ELSE reset_at
    /\ ret' = NoRet
    /\ UNCHANGED <<now, time_window, requests, waiters, atype,
                   lastAdmit, admitted, released>>
    /\ UNCHANGED <<original_max_requests, adaptation_factor>>
    /\ UNCHANGED <<mgrVars, agentVars, stratVars, choiceVars, statVars,
                   fleetVars, distVars, scanVars, sentVars, campVars, tgtVars>>

\* the sleep of _parse_rate_limit_headers is over when its time has passed
HeaderWakeUp(t) ==
    /\ now >= wake[t]
    /\ HeaderSleepDone(t)

InitTimed ==
    /\ now = 0
    /\ \E k \in 1..MaxAdaptive :
          /\ max_requests = [l \in {ARL} |-> k]
          /\ original_max_requests = k
    /\ adaptation_factor = ClampFactor(default_adaptation_factor)
    /\ consecutive_successes = 0
    /\ consecutive_rate_limits = 0
    /\ recovery_attempts = 0
    /\ \E w \in 1..MaxWindow : time_window = [l \in {ARL} |-> w]
    /\ requests = [l \in {ARL} |-> <<>>]
    /\ lock = [l \in {ARL} |-> NoTask]
    /\ waiters = [l \in {ARL} |-> <<>>]
    /\ pc = [t \in Tasks |-> "idle"]
    /\ wake = [t \in Tasks |-> 0]
    /\ lim = [t \in Tasks |-> ""]
    /\ atype = [t \in Tasks |-> NoType]
    /\ calls = 0
    /\ lastAdmit = [l \in {ARL} |-> NoTime]
    /\ admitted = [l \in {ARL} |-> 0]
    /\ released = <<>>
    /\ ret = NoRet
    /\ reset_at = NoTime
    /\ NoManager
    /\ NoAgent
    /\ NoStrategy
    /\ NoChoice
    /\ NoStats
    /\ NoFleet
    /\ NoDist
    /\ NoScan
    /\ NoSentiment
    /\ NoCampaign
    /\ NoTargets

NextTimed ==
    \/ \E t \in Tasks : Acquire(t, ARL)
    \/ \E t \in Tasks : LockGranted(t)
    \/ \E t \in Tasks : WakeUp(t)
    \/ \E t \in Tasks, st \in StatusCodes, h \in LimitHeaders, reset \in ResetTimes :
          HandleTimedResponse(t, st, h, reset)
    \/ \E t \in Tasks : HeaderWakeUp(t)
    \/ Tick

SpecTimed == InitTimed /\ [][NextTimed]_vars

-----------------------------------------------------------------------------
(* InfluenceBot: _execute_engagement_action, _execute_follow_action and the
   handlers of like and follow notifications (src/generator.py), for the agent
   AG.  The accounts are those of Npcs; OwnPost stands for a post whose author
   is the agent itself or has an @ in its name. *)

OwnPost == 0

EngagementTypes == {"like", "repost", "reply"}

tgtFrame == <<limVars, arlVars, mgrVars, agentVars, stratVars, choiceVars,
    fleetVars, distVars, scanVars, sentVars, campVars, hdrVars,
    unique_npcs_reached, unique_npcs_count, stats_current>>

\* if post_author != self.username and '@' not in post_author
TracksAuthor(author) == author # OwnPost

\* _execute_engagement_action on a post of the author: the platform call
\* succeeds or not (for a reply, also when no reply was generated); the
\* author is tracked after the if / elif chain
ExecuteEngagementAction(kind, author, success) ==
    /\ npc_interactions < MaxInteractions
    /\ IF TracksAuthor(author)
       THEN /\ engaged_npcs' = [engaged_npcs EXCEPT ![AG] = @ \cup {author}]
            /\ npc_interactions' = npc_interactions + 1
       ELSE UNCHANGED <<engaged_npcs, npc_interactions>>
    /\ engage_ret' = [op |-> "engage", kind |-> kind, user |-> author,
                      success |-> success]
    /\ UNCHANGED followed_accounts
    /\ UNCHANGED tgtFrame

\* _execute_follow_action: a user not yet followed is followed, and added
\* when follow_user returned True
ExecuteFollowAction(user, success) ==
    /\ user \notin followed_accounts
    /\ followed_accounts' = IF success THEN followed_accounts \cup {user}
                                       ELSE followed_accounts
    /\ engage_ret' = [op |-> "follow", kind |-> "follow", user |-> user,
                      success |-> success]
    /\ UNCHANGED <<engaged_npcs, npc_interactions>>
    /\ UNCHANGED tgtFrame

\* _handle_like_notification and _handle_follow_notification: when the user
\* is not followed yet and the random draw says so, follow_user is awaited
\* and the user is added
HandleNotification(kind, user, follows_back, success) ==
    /\ user \notin followed_accounts
    /\ followed_accounts' = IF follows_back THEN followed_accounts \cup {user}
                                            ELSE followed_accounts
    /\ engage_ret' = [op |-> "notification", kind |-> kind, user |-> user,
                      success |-> follows_back /\ success]
    /\ UNCHANGED <<engaged_npcs, npc_interactions>>
    /\ UNCHANGED tgtFrame

InitTargets ==
    /\ engaged_npcs = [b \in {AG} |-> {}]
    /\ followed_accounts = {}
    /\ npc_interactions = 0
    /\ engage_ret = [op |-> "none"]
    /\ unique_npcs_reached = {}
    /\ unique_npcs_count = 0
    /\ stats_current = FALSE
    /\ NoCore
    /\ NoChoice
    /\ NoFleet
    /\ NoDist
    /\ NoScan
    /\ NoSentiment
    /\ NoCampaign
    /\ NoReset

NextTargets ==
    \/ \E kind \in EngagementTypes, author \in Npcs \cup {OwnPost},
          success \in BOOLEAN :
          ExecuteEngagementAction(kind, author, success)
    \/ \E user \in Npcs, success \in BOOLEAN :
          ExecuteFollowAction(user, success)
    \/ \E kind \in {"like", "follow"}, user \in Npcs,
          follows_back \in BOOLEAN, success \in BOOLEAN :
          HandleNotification(kind, user, follows_back, success)

SpecTargets == InitTargets /\ [][NextTargets]_vars

-----------------------------------------------------------------------------
(* Properties of RateLimiter, under SpecRL *)

Limiters == DOMAIN requests

\* C1: the recorded admissions that lie inside the trailing window never
\* outnumber the capacity (the window is the one the limiter itself evicts by:
\* an entry leaves it when it is older than time_window).
C1_WindowWithinCapacity ==
    \A l \in Limiters :
        Cardinality(InWindow(requests[l], now, time_window[l])) <= max_requests[l]

\* C2: while a caller is suspended inside acquire() (waiting for the window to
\* free a slot), no other caller is admitted by that limiter: the only step that
\* admits is the waiting caller's own.
C2_NoAdmissionWhileAnotherWaits ==
    [][\A t \in Tasks :
          pc[t] = "sleeping" =>
              \/ admitted'[lim[t]] = admitted[lim[t]]
              \/ pc'[t] # "sleeping"]_vars

\* C2 witness: a second caller arrived while the first one waits in acquire()
C2_Witness ==
    \E t, u \in Tasks :
        /\ pc[t] = "sleeping"
        /\ pc[u] = "waitlock"
        /\ lim[u] = lim[t]

\* the number of admissions recorded with the present timestamp
AdmittedNow(l) == Cardinality({i \in 1..Len(requests[l]) : requests[l][i] = now})

\* C3 (amended): after max_requests admissions at the present time
\* can_make_request() returns false; once more than time_window has passed
\* since the latest admission it returns true.
C3_SaturatedThenFreeAfterWindow ==
    \A l \in Limiters :
        (ret.op = "can_make_request" /\ ret.lim = l) =>
            /\ (AdmittedNow(l) >= max_requests[l] => ret.val = FALSE)
            /\ (lastAdmit[l] # NoTime /\ now - lastAdmit[l] > time_window[l]
                    => ret.val = TRUE)

\* C3 witness: the limiter was filled, more than the window passed, and
\* can_make_request() answered true
C3_Witness ==
    \E l \in Limiters :
        /\ ret.op = "can_make_request" /\ ret.lim = l /\ ret.val = TRUE
        /\ admitted[l] >= max_requests[l]
        /\ now - lastAdmit[l] > time_window[l]

\* C3 as claimed: true again as soon as time_window has passed
C3_FreeAtWindow ==
    \A l \in Limiters :
        (ret.op = "can_make_request" /\ ret.lim = l
            /\ lastAdmit[l] # NoTime /\ now - lastAdmit[l] >= time_window[l])
        => ret.val = TRUE

-----------------------------------------------------------------------------
(* Properties of BotActionLimiter, under SpecBAL *)

\* the calls of BotActionLimiter.acquire that returned inside the trailing
\* window of the overall limiter
ReleasedInWindow ==
    {i \in 1..Len(released) :
        ~((now - released[i]) > time_window[OverallLimiter])}

\* C4: the number of acquire(action_type) calls that complete within the
\* trailing overall window never exceeds the overall limiter's capacity.
C4_ReleasedWithinOverallCapacity ==
    Cardinality(ReleasedInWindow) <= max_requests[OverallLimiter]

\* a limiter whose window holds at least max_requests admissions
Saturated(l) ==
    Cardinality(InWindow(requests[l], now, time_window[l])) >= max_requests[l]

\* C5: with the overall limiter saturated can_perform_action is false for every
\* action type; it is true only if neither the overall limiter nor the type's
\* limiter (when the type has one) is saturated.
C5_OverallGatesEveryType ==
    ret.op = "can_perform_action" =>
        /\ (Saturated(OverallLimiter) => ret.val = FALSE)
        /\ (ret.val = TRUE =>
                /\ ~Saturated(OverallLimiter)
                /\ (HasLimiter(ret.type) => ~Saturated(ret.type)))

\* C5 witness: the overall limiter is saturated while the type asked about has
\* headroom in a limiter of its own, and the answer is false
C5_Witness ==
    /\ ret.op = "can_perform_action"
    /\ HasLimiter(ret.type)
    /\ Saturated(OverallLimiter)
    /\ ~Saturated(ret.type)
    /\ ret.val = FALSE

-----------------------------------------------------------------------------
(* Properties of AdaptiveRateLimiter, under SpecARL *)

\* the step is a 429 response that is at least the second of its run
RepeatedFailureStep ==
    /\ ret'.op = "handle_rate_limit_response"
    /\ ret'.status = "429"
    /\ consecutive_rate_limits' >= 2

C7_RecoveryIncreases ==
    [][(/\ ret'.op = "handle_rate_limit_response"
        /\ ret'.status = "2xx"
        /\ consecutive_successes + 1 >= recovery_threshold
        /\ 1 <= max_requests[ARL]
        /\ max_requests[ARL] < original_max_requests
        /\ recovery_attempts < max_recovery_attempts)
       => max_requests'[ARL] > max_requests[ARL]]_vars

\* C8: max_requests never exceeds original_max_requests.
C8_NeverAboveOriginal ==
    max_requests[ARL] <= original_max_requests

\* C8 witness: a recovery whose 20 % increase would pass the original limit
\* (10 -> 12 with an original of 11) has brought the limit back to the original
C8_Witness ==
    /\ original_max_requests = 11
    /\ recovery_attempts > 0
    /\ consecutive_successes = 0
    /\ ret.op = "handle_rate_limit_response"
    /\ ret.status = "2xx"
    /\ max_requests[ARL] = original_max_requests

\* C9: max_requests never drops below 1.
C9_NeverBelowOne ==
    max_requests[ARL] >= 1

-----------------------------------------------------------------------------
(* Properties of BotManager, under SpecMgr *)

\* C10: while the campaign runs, the supervisor of a bot whose loop failed
\* keeps retrying it: its task ends only once the bot failed max_retries
\* times, and then the bot is out of active_bots and counted in
\* accounts_banned.
C10_FailedAgentIsRetried ==
    \A b \in Bots :
        (is_running /\ failures[b] >= 1 /\ bpc[b] = "ended") =>
            /\ failures[b] >= max_retries
            /\ b \notin active_bots
            /\ accounts_banned >= 1

\* the tasks of the bots other than b are where they were
OthersUntouched(b) == \A o \in Bots \ {b} : bpc'[o] = bpc[o]

\* C11: a step in which a bot's activity cycle raises leaves the task of every
\* other bot where it was; a coordination cycle that raises leaves every bot's
\* task where it was and puts the coordination loop into its retry sleep, from
\* which it goes into another cycle unless the campaign was stopped; while the
\* campaign runs no bot's task is cancelled and the coordination loop has not
\* ended.
C11_ErrorsStayLocal ==
    /\ [](is_running =>
            /\ cpc # "ended"
            /\ \A b \in Bots : bpc[b] # "cancelled")
    /\ [][/\ \A b \in Bots : failures'[b] > failures[b] => OthersUntouched(b)
          /\ (cpc = "cycle" /\ cpc' \notin {"cycle", "sleep"}) =>
                 /\ bpc' = bpc
                 /\ cpc' = "retry_sleep"
          /\ (cpc = "retry_sleep" /\ cpc' # cpc) =>
                 cpc' = IF is_running THEN "cycle" ELSE "ended"]_vars

\* C11 witness: one bot's cycle has failed and a coordination cycle has failed,
\* and another bot is in its activity loop while the campaign runs
C11_Witness ==
    /\ is_running
    /\ cpc = "retry_sleep"
    /\ \E b, o \in Bots :
          /\ b # o
          /\ failures[b] >= 1
          /\ bpc[o] \in {"cycle", "wait"}

\* C12: once the tasks are launched, the bots in active_bots plus
\* accounts_banned number as many as the bots launched; a bot leaves
\* active_bots only in a step that ends its task with retry_count at
\* max_retries, and that step adds exactly 1 to accounts_banned.
C12_ActivePlusBannedIsLaunched ==
    /\ [](phase \in {"running", "stopped"} =>
            Cardinality(active_bots) + accounts_banned = Cardinality(bot_tasks))
    /\ [][\A b \in Bots :
             (b \in active_bots /\ b \notin active_bots') =>
                 /\ retry_count'[b] >= max_retries
                 /\ bpc'[b] = "ended"
                 /\ accounts_banned' = accounts_banned + 1]_vars

\* C12 witness: tasks were launched for some but not all bots, and the task of
\* a launched bot has ended after a failure
C12_Witness ==
    /\ phase = "running"
    /\ bot_tasks # Bots
    /\ \E b \in bot_tasks : bpc[b] = "ended" /\ failures[b] >= 1

-----------------------------------------------------------------------------
(* Properties of one agent, under SpecAgent *)

\* C13: the task of an agent is never cancelled in the middle of a platform
\* call: a call that was begun returns and is booked before the task ends.
C13_NoCallCutShort ==
    cancelled_at # "call"

\* C14: an agent that is making a platform call was admitted by its rate
\* limiter for that call.
C14_CallsAreAdmitted ==
    apc = "call" => acquired

\* the step changes one of the counters or last_action_time
BooksAction ==
    \/ stats' # stats
    \/ action_count' # action_count
    \/ last_action_time' # last_action_time

\* C15: the counters of stats, action_count and last_action_time change only
\* in the step in which a post, reply, like or repost call returns success, and
\* then the counter of that kind and action_count go up by 1; when the call
\* fails, is rate-limited or raises they all stay as they are.
C15_BookedOnlyOnSuccess ==
    [][/\ BooksAction =>
             /\ ret'.op = "call"
             /\ ret'.result = "ok"
             /\ ret'.kind \in Limited
             /\ stats' = [stats EXCEPT ![StatOf(ret'.kind)] = @ + 1]
             /\ action_count' = action_count + 1
       /\ (ret'.op = "call" /\ ret'.result # "ok") =>
             UNCHANGED <<stats, action_count, last_action_time>>]_vars

\* C15 witness: after a booked action, a rate-limited call has returned at a
\* later time and left the bookkeeping as it was
C15_Witness ==
    /\ ret.op = "call"
    /\ ret.result = "rate_limited"
    /\ action_count = 1
    /\ last_action_time < now

\* C16: an active agent is authenticated, and so is one inside a cycle or the
\* delay after it; when start() raised, the agent is neither authenticated nor
\* active and has made no platform call.
C16_ActiveOnlyIfAuthenticated ==
    /\ is_active[AG] => is_authenticated[AG]
    /\ apc \in InCycle \cup {"delay"} => is_authenticated[AG]
    /\ apc = "raised" =>
          /\ ~is_authenticated[AG]
          /\ ~is_active[AG]
          /\ api_calls = 0

\* C16 witness: start() raised because authenticate() failed
C16_Witness ==
    /\ apc = "raised"
    /\ ~is_active[AG]

\* C17: the step of stop() leaves start() where it is; once stop() was called
\* on an active agent, is_active stays false, no step takes the loop from the
\* delay into another cycle, and start() does not raise.
C17_NoCycleAfterStop ==
    /\ [](stop_called => (~is_active[AG] /\ apc # "raised"))
    /\ [][/\ (stop_called' /\ ~stop_called) => apc' = apc
          /\ stop_called => ~(apc = "delay" /\ apc' = "scan")]_vars

\* C17 witness: stop() was called during a cycle or delay, and start() has
\* returned normally, with no exception and no cancellation
C17_Witness ==
    /\ stop_called
    /\ apc = "returned"
    /\ failures[AG] = 0
    /\ cancelled_at = "none"
    /\ ~is_active[AG]

-----------------------------------------------------------------------------
(* Properties of StrategyEngine, under SpecStrat *)

\* a step of get_next_action: the cycle goes from idle to executing
Decides == spc = "idle" /\ spc' = "executing"

\* the queue without the directive of the given id
Without(q, n) == SelectSeq(q, LAMBDA o : o.id # n)

\* C18: whenever the queue holds a directive that may execute (its cooldown
\* is clear and the context it needs is there), get_next_action returns the
\* action converted from a directive of the highest priority among those that
\* may execute and takes exactly that directive out of the queue; so the
\* organic strategy decides only when no queued directive may execute.
C18_BestExecutableDirectiveRuns ==
    [][Decides =>
         LET q == coordination_objectives
             ex == {i \in 1..Len(q) :
                      CanExecuteObjective(q[i], action_cooldowns,
                                          trending_topics')}
         IN  ex # {} =>
               \E i \in ex :
                  /\ \A j \in ex : PriorityScore(q[j].priority)
                                      <= PriorityScore(q[i].priority)
                  /\ decision'.source = "directive"
                  /\ decision'.id = q[i].id
                  /\ Act(decision'.type, decision'.content_type)
                        = ConvertObjectiveToAction(q[i])
                  /\ coordination_objectives' = Without(q, q[i].id)]_vars

\* C19: a directive is converted into an action at most once: the actions
\* produced from directives never outnumber the directives enqueued, no
\* directive is converted twice, and a converted directive is no longer in
\* the queue.
C19_ConvertedAtMostOnce ==
    /\ DOMAIN converted = 1..enqueued
    /\ \A n \in 1..enqueued : converted[n] <= 1
    /\ \A k \in 1..Len(coordination_objectives) :
          converted[coordination_objectives[k].id] = 0

\* C19 witness: the first of two equal campaign_push directives was converted
\* and the second, equal to it as a dict, is still queued
C19_Witness ==
    /\ converted = <<1, 0>>
    /\ decision.source = "directive"
    /\ decision.content_type = "political"
    /\ Len(coordination_objectives) = 1
    /\ coordination_objectives[1].id = 2
    /\ coordination_objectives[1].type = "campaign_push"

\* C20 as stated: in the political_influence phase, whenever the ratio of
\* political posts to posts of the recent actions is below the target (the
\* empty history included), get_next_action returns a post with political
\* content, whatever the draw.
C20_AlwaysPoliticalWhenBelowTarget ==
    [][(/\ Decides
        /\ current_phase = "political_influence"
        /\ PoliticalPosts(recent_actions) * 10
              < political_ratio * Max(1, RecentPosts(recent_actions)))
       => (decision'.type = "post" /\ decision'.content_type = "political")]_vars

\* C20 amended: in the political_influence phase, whenever get_next_action
\* converts no queued directive and the ratio of political posts to posts of
\* the recent actions is below the target (the empty history included), it
\* returns a post with political content, whatever the draw.
C20_PoliticalWhenBelowTargetAndNoDirective ==
    [][(/\ Decides
        /\ current_phase = "political_influence"
        /\ decision'.source = "organic"
        /\ PoliticalPosts(recent_actions) * 10
              < political_ratio * Max(1, RecentPosts(recent_actions)))
       => (decision'.type = "post" /\ decision'.content_type = "political")]_vars

\* C20 witness: with an empty history, the political phase's first organic
\* decision was a political post
C20_Witness ==
    /\ current_phase = "political_influence"
    /\ spc = "executing"
    /\ decision.source = "organic"
    /\ decision.type = "post"
    /\ decision.content_type = "political"
    /\ recent_actions = <<Act("post", "political")>>

-----------------------------------------------------------------------------
(* Properties of the weighted choices, under SpecChoice *)

\* C21: for a non-empty option list whose total weight is not positive, a
\* weighted choice returns the first option, whichever of the two functions
\* made it and whatever the random draw was.
C21_NonPositiveTotalGivesFirst ==
    (chosen.op # "none" /\ TotalWeight(choices) <= 0) => chosen.item = 1

-----------------------------------------------------------------------------
(* Properties of the team statistics, under SpecStats *)

\* C22: right after a statistics update the aggregated set of accounts
\* reached is the union of the engaged sets of the active bots, and a report
\* counts the members of that set, each account once.
C22_UniqueTargetsAreTheUnion ==
    /\ [](stats_current =>
            unique_npcs_reached = UNION {engaged_npcs[b] : b \in active_bots})
    /\ [][unique_npcs_count' # unique_npcs_count =>
            unique_npcs_count' = Cardinality(unique_npcs_reached)]_vars

\* C22 witness: three active bots engaged {1,2}, {2,3} and {3,4}; the update
\* and the report give 4, not 6
C22_Witness ==
    /\ stats_current
    /\ active_bots = {1, 2, 3}
    /\ engaged_npcs[1] = {1, 2}
    /\ engaged_npcs[2] = {2, 3}
    /\ engaged_npcs[3] = {3, 4}
    /\ unique_npcs_reached = {1, 2, 3, 4}
    /\ unique_npcs_count = 4

-----------------------------------------------------------------------------
(* Properties of create_bot_fleet, under SpecFleet *)

\* C23: create_bot_fleet(n) is all-or-nothing: it returns true having created
\* exactly n bots, or false having created none, and a fleet it reported as
\* created has exactly n bots.
C23_FleetIsAllOrNothing ==
    fleet_ret.op = "create_bot_fleet" =>
        \/ /\ fleet_ret.result
           /\ Len(bots) - fleet_ret.before = fleet_ret.num_bots
           /\ Len(bots) = fleet_ret.num_bots
        \/ /\ ~fleet_ret.result
           /\ Len(bots) = fleet_ret.before

-----------------------------------------------------------------------------
(* Properties of the distribution of directives, under SpecDist *)

\* the position of a bot in the list of active bots
PlaceOf(b) == CHOOSE i \in 1..Len(team) : team[i] = b

\* how many of the opportunities handled so far were sent to a bot
ReceivedBy(b) ==
    Cardinality({k \in 1..Len(selected_bots) :
                   \E i \in 1..Len(selected_bots[k]) : selected_bots[k][i] = b})

\* C24: every opportunity goes to exactly min(bot_count, number of active
\* bots) distinct bots, taken in the order of the list and, for each next
\* opportunity, beginning with the bot after the last one selected before;
\* so when the bot counts of the cycle sum to at most the number of active
\* bots, no bot receives two directives.
C24_RoundRobinDistribution ==
    /\ \A k \in 1..Len(selected_bots) :
          LET sel == selected_bots[k]
          IN  /\ Len(sel) = Min(opportunities[k], Len(team))
              /\ \A i, j \in 1..Len(sel) : i # j => sel[i] # sel[j]
              /\ \A i \in 1..(Len(sel) - 1) :
                    PlaceOf(sel[i + 1]) = (PlaceOf(sel[i]) % Len(team)) + 1
              /\ k > 1 =>
                    PlaceOf(sel[1]) =
                        (PlaceOf(selected_bots[k - 1][Len(selected_bots[k - 1])])
                            % Len(team)) + 1
    /\ SumTo(opportunities, Len(selected_bots)) <= Len(team) =>
          \A b \in Bots : ReceivedBy(b) <= 1

\* C24 witness: three active bots, opportunities for one and for two bots:
\* every bot received exactly one directive
C24_Witness ==
    /\ Len(team) = 3
    /\ opportunities = <<1, 2>>
    /\ Len(selected_bots) = 2
    /\ \A b \in Bots : ReceivedBy(b) = 1

-----------------------------------------------------------------------------
(* Properties of the scanner, under SpecScan *)

\* a scan has returned
Scanned == intelligence # [s \in Sections |-> DefaultSection(s)]
             \/ scan_failed # {} \/ scan_completed

\* C25: whichever sub-scans fail, the snapshot returned has the section of
\* every failed sub-scan empty (absent, an empty list or dict, or counters
\* that are all zero) and the section of every other sub-scan holding what
\* that sub-scan returned.
C25_FailedSectionsAreEmpty ==
    \A s \in Sections :
        /\ s \in scan_failed => intelligence[s].kind # "data"
        /\ (s \notin scan_failed /\ Scanned) =>
              (intelligence[s] = scan_results[s]
               \/ (~Truthy(scan_results[s]) /\ ~Truthy(intelligence[s])))

\* C26: after a completed scan the trending topics and the sentiment the
\* scanner holds, and the context of the strategy engine, are those of that
\* scan: what the scan found empty is empty there too.
C26_RetainedStateIsTheLastScan ==
    scan_completed =>
        /\ held_trending_topics = intelligence["trending_topics"]
        /\ political_sentiment = intelligence["political_sentiment"]
        /\ \A s \in Sections :
              \/ current_context[s] = intelligence[s]
              \/ (intelligence[s] = Missing /\ current_context[s] = Missing)

-----------------------------------------------------------------------------
(* Properties of BotActionLimiter.handle_response, under SpecResp *)

\* C27: when handle_response reports the second rate-limited response in a
\* row for one action type, the capacity of the overall limiter and the
\* capacity of that type's limiter are both below what they were built with.
C27_BothLimitersShrink ==
    [][(/\ ret.op = "handle_response"
        /\ ret.status = "429"
        /\ ret'.status = "429"
        /\ ret'.atype = ret.atype
        /\ consecutive_rate_limits' = consecutive_rate_limits + 1)
       => /\ max_requests'[OverallLimiter] < RespCapacity(OverallLimiter)
          /\ max_requests'[ret.atype] < RespCapacity(ret.atype)]_vars

\* C28: every response that is not a success, whatever its status, counts as
\* a failure for the adaptive limiter: the count of consecutive failures
\* advances and the count of consecutive successes is reset.
C28_EveryFailureIsCounted ==
    [][(/\ ret'.op = "handle_response"
        /\ ret'.status # "2xx"
        /\ ret' # ret)
       => /\ consecutive_rate_limits' = consecutive_rate_limits + 1
          /\ consecutive_successes' = 0]_vars

-----------------------------------------------------------------------------
(* Properties of a RateLimiter without capacity, under SpecZero *)

\* C29: with a capacity <= 0 every admission attempt is turned down in the
\* normal way: can_make_request() returns False, acquire() records no
\* admission, and acquire() raises no error.
C29_NoCapacityRejectsWithoutError ==
    /\ (ret.op = "can_make_request" => ret.val = FALSE)
    /\ admitted[RL] = 0
    /\ requests[RL] = <<>>
    /\ ret.op # "acquire"

-----------------------------------------------------------------------------
(* Properties of _analyze_post_sentiment, under SpecSent *)

\* the classification by the match counts: positive for the candidate with
\* strictly more keywords when positive keywords outnumber negative ones,
\* else negative for nobody when negative keywords outnumber positive ones,
\* else neutral with strength 0
ClassifiedByCounts ==
    LET v == scores.victor
        m == scores.marina
        p == scores.positive
        n == scores.negative
    IN  /\ (p > n /\ v > m) =>
              /\ sentiment.candidate = "victor" /\ sentiment.type = "positive"
              /\ sentiment.strength = Min(15, 3 * (v + p))
        /\ (p > n /\ m > v) =>
              /\ sentiment.candidate = "marina" /\ sentiment.type = "positive"
              /\ sentiment.strength = Min(15, 3 * (m + p))
        /\ (p > n /\ v = m) =>
              /\ sentiment.candidate = "none" /\ sentiment.type = "neutral"
              /\ sentiment.strength = 0
        /\ n > p =>
              /\ sentiment.candidate = "none" /\ sentiment.type = "negative"
              /\ sentiment.strength = Min(15, 5 * n)
        /\ n = p =>
              /\ sentiment.candidate = "none" /\ sentiment.type = "neutral"
              /\ sentiment.strength = 0

-----------------------------------------------------------------------------
(* Further properties of BotManager, under SpecMgr *)

\* the positions of a bot's task at which its loop is alive: about to call
\* start(), in a cycle, in the delay after a cycle, or in the backoff sleep
LiveLoop == {"supervise", "cycle", "wait", "backoff"}

\* C31: while the campaign runs, the task of every bot in active_bots is alive:
\* it is in a cycle, in the delay between cycles, or in the supervisor's
\* backoff; no bot stays in active_bots with its task ended.
C31_ActiveBotsHaveLiveLoops ==
    (is_running /\ phase = "running") =>
        \A b \in active_bots : bpc[b] \in LiveLoop

-----------------------------------------------------------------------------
(* Properties of start_campaign as a whole, under SpecCampaignLive and
   SpecCampaign *)

\* C32: once the campaign runs and the task of every bot has ended (or there
\* is none, because no bot authenticated), start_campaign eventually runs
\* stop_campaign and is over.
C32_CampaignEndsWithItsBots ==
    (phase = "running" /\ \A b \in bot_tasks : bpc[b] = "ended")
        ~> (phase = "returned")

\* C33: once stop_campaign has completed, team_stats is not rewritten and no
\* directive is enqueued any more.
C33_NoCoordinationAfterStop ==
    [][(phase \in {"stopped", "returned"}) =>
          (stats_updates' = stats_updates /\ signals_sent' = signals_sent)]_vars

-----------------------------------------------------------------------------
(* Further properties of StrategyEngine, under SpecStratLive and SpecStrat *)

\* directive n is in coordination_objectives
Queued(n) ==
    \E i \in 1..Len(coordination_objectives) : coordination_objectives[i].id = n

\* C34: every directive that is in the queue leaves it at some time, converted
\* or discarded, as long as the agent keeps making decisions.
C34_EveryDirectiveLeavesTheQueue ==
    \A n \in 1..MaxDirectives : Queued(n) ~> ~Queued(n)

\* C35: a directive is turned into an action of some type only when no
\* cooldown of that type is running, that is when the agent has not executed
\* an action of that type within the last 5 minutes.
C35_DirectivesWaitForTheCooldown ==
    [][(Decides /\ decision'.source = "directive")
          => decision'.type \notin action_cooldowns]_vars

\* C36: every call of get_next_action appends the action it returns to
\* recent_actions, the oldest entry going when the history is full; so the
\* history is always the last actions returned, in order, and never longer
\* than its maxlen.
C36_HistoryHoldsEveryReturnedAction ==
    /\ [](Len(recent_actions) <= MaxRecent)
    /\ [][Decides =>
             recent_actions' =
                 Remember(recent_actions,
                          Act(decision'.type, decision'.content_type))]_vars

-----------------------------------------------------------------------------
(* Properties of an AdaptiveRateLimiter in use, under SpecTimed *)

\* C37: once the capacity was lowered, acquire() records an admission only
\* when the window, after eviction, holds fewer entries than the capacity of
\* the moment: after the admission the window holds at most max_requests
\* entries.
C37_AdmitsOnlyBelowCapacity ==
    [][(/\ max_requests[ARL] < original_max_requests
        /\ admitted'[ARL] > admitted[ARL])
       => Len(requests'[ARL]) <= max_requests'[ARL]]_vars

\* C38: after a 429 response whose headers report remaining = 0 and a reset
\* time in the future, acquire() records no admission before that reset time.
C38_NoAdmissionBeforeReset ==
    [][admitted'[ARL] > admitted[ARL] =>
          (reset_at = NoTime \/ now >= reset_at)]_vars

-----------------------------------------------------------------------------
(* Properties of the targets of one agent, under SpecTargets *)

\* C39: engaged_npcs and npc_interactions change only in an engagement whose
\* platform call succeeded, and followed_accounts gains a user only when the
\* follow call for that user succeeded.
C39_TargetsOnlyAfterSuccess ==
    [][/\ (engaged_npcs' # engaged_npcs \/ npc_interactions' # npc_interactions)
             => (engage_ret'.op = "engage" /\ engage_ret'.success)
       /\ followed_accounts' # followed_accounts
             => /\ engage_ret'.op \in {"follow", "notification"}
                /\ engage_ret'.success
                /\ followed_accounts' = followed_accounts \cup {engage_ret'.user}]_vars

-----------------------------------------------------------------------------
(* Further properties of the weighted choices, under SpecChoice *)

\* C40: for a positive total weight, _weighted_random_choice returns one of
\* the options, namely one in whose interval of accumulated weight the draw
\* lies, and never an option of weight 0.
C40_DrawFallsInTheChosenInterval ==
    (chosen.op = "_weighted_random_choice" /\ TotalWeight(choices) > 0) =>
        /\ chosen.item \in 1..Len(choices)
        /\ 2 * SumTo(choices, chosen.item - 1) <= chosen.draw
        /\ chosen.draw <= 2 * SumTo(choices, chosen.item)
        /\ choices[chosen.item] # 0

====
